---- MODULE Spec2Model ----
(***************************************************************************)
(* Model of the integration module of the ptwXY piecewise-function library *)
(* (numericalFunctions/ptwXY/Src/ptwXY_integration.c).                     *)
(*                                                                         *)
(* A C double is modelled as an exact rational <<n, d>> in lowest terms    *)
(* with d > 0.  Two more values stand for the doubles that are no rational *)
(* number: Irrational, a finite non-zero irrational number such as log(2), *)
(* of which the model keeps only that it is finite and not 0; and NaR, any *)
(* other value (a nan, an infinity, or a sum the model cannot name).  The  *)
(* functions the specifications start from are chosen so that the          *)
(* integrals of their segments are rational.                               *)
(***************************************************************************)
EXTENDS Integers, Sequences, FiniteSets, TLC

\* ---------------------------------------------------------------- bounds
\* Largest number of points of a generated function.
MaxLen == 3

\* Largest number of groups of a grid of group boundaries.
MaxBins == 2

\* ------------------------------------------------------ double arithmetic
RECURSIVE GCD(_, _)
GCD(a, b) == IF b = 0 THEN a ELSE GCD(b, a % b)

Abs(n) == IF n < 0 THEN -n ELSE n

NaR == <<0, 0>>

Irrational == <<1, 0>>

\* No rational number: NaR or Irrational.
IsNaR(q) == q[2] = 0

Sign(d) == IF d < 0 THEN -1 ELSE 1

Reduced(n, d, g) == <<(Sign(d) * n) \div g, (Sign(d) * d) \div g>>

\* The rational n/d in lowest terms, d # 0.
Rat(n, d) == Reduced(n, d, GCD(Abs(n), Abs(d)))

R(n) == <<n, 1>>

Zero == <<0, 1>>

One == <<1, 1>>

RAdd(p, q) ==
    IF p = Zero THEN q
    ELSE IF q = Zero THEN p
    ELSE IF IsNaR(p) \/ IsNaR(q) THEN NaR
    ELSE Rat(p[1] * q[2] + q[1] * p[2], p[2] * q[2])

RNeg(p) == IF IsNaR(p) THEN p ELSE <<-p[1], p[2]>>

RSub(p, q) == RAdd(p, RNeg(q))

RMul(p, q) ==
    IF p = NaR \/ q = NaR THEN NaR
    ELSE IF p = Zero \/ q = Zero THEN Zero
    ELSE IF p = Irrational /\ q = Irrational THEN NaR
    ELSE IF p = Irrational \/ q = Irrational THEN Irrational
    ELSE Rat(p[1] * q[1], p[2] * q[2])

\* p / q; a division by 0. gives no number the model names (inf or nan in C).
RDiv(p, q) ==
    IF p = NaR \/ q = NaR \/ q = Zero THEN NaR
    ELSE IF p = Zero THEN Zero
    ELSE IF p = Irrational /\ q = Irrational THEN NaR
    ELSE IF p = Irrational \/ q = Irrational THEN Irrational
    ELSE Rat(p[1] * q[2], p[2] * q[1])

RLt(p, q) == ~IsNaR(p) /\ ~IsNaR(q) /\ p[1] * q[2] < q[1] * p[2]

RLe(p, q) == ~IsNaR(p) /\ ~IsNaR(q) /\ p[1] * q[2] <= q[1] * p[2]

RGt(p, q) == RLt(q, p)

RGe(p, q) == RLe(q, p)

RAbs(p) == IF IsNaR(p) THEN p ELSE <<Abs(p[1]), p[2]>>

\* (int) a: truncation toward zero.  The conversion of a nan is undefined in
\* C; its only use bounds the result to 4..12 terms of a series that is nan
\* for a nan a whatever their number, so one outcome stands for all.
Trunc(p) ==
    IF IsNaR(p) THEN 0
    ELSE IF p[1] >= 0 THEN p[1] \div p[2] ELSE -((-p[1]) \div p[2])

\* log( r ): 0 at r = 1, a non-zero irrational at any other rational r > 0,
\* and no number (-inf or nan in C) at r <= 0.
Log(r) ==
    IF IsNaR(r) \/ RLe(r, Zero) THEN NaR
    ELSE IF r = One THEN Zero
    ELSE Irrational

\* exp( r ): 1 at r = 0, else an irrational.
Exp(r) == IF r = NaR THEN NaR ELSE IF r = Zero THEN One ELSE Irrational

\* The integer square root of a perfect square n, else -1.
ISqrt(n) == IF \E k \in 0..n : k * k = n THEN CHOOSE k \in 0..n : k * k = n ELSE -1

\* sqrt( r ): a rational when r is a quotient of perfect squares, a nan at
\* r < 0, else an irrational.
Sqrt(r) ==
    IF r = NaR \/ RLt(r, Zero) THEN NaR
    ELSE IF IsNaR(r) THEN Irrational
    ELSE IF ISqrt(r[1]) >= 0 /\ ISqrt(r[2]) >= 0 THEN <<ISqrt(r[1]), ISqrt(r[2])>>
    ELSE Irrational

\* pow( r, e ), r > 0: named by the model at e = 0 and e = 1.
Pow(r, e) ==
    IF IsNaR(r) \/ IsNaR(e) THEN NaR
    ELSE IF e = Zero THEN One
    ELSE IF e = One THEN r
    ELSE NaR

\* ----------------------------------------------------------------- status
\* What a call returns: its status, the value it leaves in *value, and
\* whether it wrote an error message to smr; every failure return of the
\* file follows a smr_setReportError2 or smr_setReportError2p.
Okay(v) == [status |-> "nfu_Okay", value |-> v, reported |-> FALSE]

Fail(s, v) == [status |-> s, value |-> v, reported |-> TRUE]

\* A failure of a callee that is given no smr (NULL) to write to.
Unreported(s) == [status |-> s, value |-> Zero, reported |-> FALSE]

\* What a routine with a vector as result returns: the vector data, or NULL
\* (data = <<>>) with status the first error it reported; allocated holds the
\* structures the call created and released the ptwXY_free / ptwX_free
\* calls it made, in order.
vector(status, data, allocated, released) ==
    [status |-> status, data |-> data, allocated |-> allocated, released |-> released,
     reported |-> status # "nfu_Okay"]

\* ------------------------------------------------------ segment integrator
\* fabs( r - 1. ) < 1e-4
NearOne(r) == RLt(RAbs(RSub(r, One)), Rat(1, 10000))

\* r * ( -0.5 + r * ( 1. / 3. + r * ( -0.25 + .2 * r ) ) )
Series(r) ==
    RMul(r, RAdd(Rat(-1, 2), RMul(r, RAdd(Rat(1, 3),
        RMul(r, RAdd(Rat(-1, 4), RMul(Rat(1, 5), r)))))))

\* l * ( 1. + l * ( -0.5 + l * ( 1. / 3. - 0.25 * l ) ) ): the series of log( 1 + l )
LogSeries(l) ==
    RMul(l, RAdd(One, RMul(l, RAdd(Rat(-1, 2),
        RMul(l, RSub(Rat(1, 3), RMul(Rat(1, 4), l)))))))

\* log( v2 / v1 ) as the logLog case computes it.
LogRatio(v1, v2) ==
    IF NearOne(RDiv(v2, v1)) THEN LogSeries(RDiv(RSub(v2, v1), v1))
    ELSE Log(RDiv(v2, v1))

\* for( i = 0, s = 0.; i < n; i++, a++, f-- ) s = ( 1. + s ) * a * z / f;
RECURSIVE PowerSeries(_, _, _, _, _, _)
PowerSeries(i, n, s, a, z, f) ==
    IF i >= n THEN s
    ELSE PowerSeries(i + 1, n, RDiv(RMul(RMul(RAdd(One, s), a), z), f),
                     RAdd(a, One), z, RSub(f, One))

\* n = (int) a; if( n > 10 ) n = 12; if( n < 4 ) n = 6;
termCount(n) == IF n > 10 THEN 12 ELSE IF n < 4 THEN 6 ELSE n

\* The branch fabs( r - 1. ) < 1e-3 of the logLog case, n terms.
logLogSeries(x1, y1, x2, a, n) ==
    RMul(RMul(y1, RSub(x2, x1)),
         RAdd(One, PowerSeries(0, n, Zero, RAdd(RSub(a, R(n)), One),
                               RDiv(RSub(x2, x1), x1), R(n + 1))))

\* The logLog case once r = x2 / x1 and a = ly / lx are known.
logLogValue(x1, y1, x2, r, a) ==
    IF RLt(RAbs(RSub(r, One)), Rat(1, 1000))
    THEN logLogSeries(x1, y1, x2, a, termCount(Trunc(a)))
    ELSE RDiv(RMul(RMul(y1, x1), RSub(Pow(r, RAdd(a, One)), One)), RAdd(a, One))

logLogIntegral(x1, y1, x2, y2) ==
    logLogValue(x1, y1, x2, RDiv(x2, x1), RDiv(LogRatio(y1, y2), LogRatio(x1, x2)))

\* The linLog case once r = x2 / x1 is known not to be near 1.
linLogValue(x1, y1, x2, y2, r) ==
    RSub(RAdd(RDiv(RMul(RSub(y1, y2), RSub(x2, x1)), Log(r)), RMul(x2, y2)), RMul(x1, y1))

\* The linLog case near r = 1, s the series of r - 1.
linLogSeries(x1, y1, x2, y2, s) ==
    RAdd(RDiv(RMul(RMul(x1, RSub(y2, y1)), s), RAdd(One, s)), RMul(y2, RSub(x2, x1)))

\* A variant of ptwXY_f_integrate that integrates every law as flat.
leftRectangle(interpolation, x1, y1, x2, y2) ==
    IF interpolation = "other" THEN Fail("nfu_otherInterpolation", Zero)
    ELSE Okay(RMul(y1, RSub(x2, x1)))

\* A variant of ptwXY_f_integrate whose laws with a log look at the first
\* point only.
checkedAtFirstPoint(interpolation, x1, y1, x2, y2) ==
    IF interpolation = "other" THEN Fail("nfu_otherInterpolation", Zero)
    ELSE IF interpolation \in {"logLin", "logLog"} /\ RLe(y1, Zero)
    THEN Fail("nfu_badIntegrationInput", Zero)
    ELSE IF interpolation \in {"linLog", "logLog"} /\ RLe(x1, Zero)
    THEN Fail("nfu_badIntegrationInput", Zero)
    ELSE Okay(RMul(y1, RSub(x2, x1)))

ptwXY_f_integrate(interpolation, x1, y1, x2, y2) ==
    CASE interpolation = "linLin" ->
            Okay(RMul(RMul(Rat(1, 2), RAdd(y1, y2)), RSub(x2, x1)))
      [] interpolation = "logLin" ->
            IF RLe(y1, Zero) \/ RLe(y2, Zero)
            THEN Fail("nfu_badIntegrationInput", Zero)
            ELSE IF NearOne(RDiv(y2, y1))
            THEN Okay(RDiv(RMul(y1, RSub(x2, x1)),
                           RAdd(One, Series(RSub(RDiv(y2, y1), One)))))
            ELSE Okay(RDiv(RMul(RSub(y2, y1), RSub(x2, x1)), Log(RDiv(y2, y1))))
      [] interpolation = "linLog" ->
            IF RLe(x1, Zero) \/ RLe(x2, Zero)
            THEN Fail("nfu_badIntegrationInput", Zero)
            ELSE IF NearOne(RDiv(x2, x1))
            THEN Okay(linLogSeries(x1, y1, x2, y2, Series(RSub(RDiv(x2, x1), One))))
            ELSE Okay(linLogValue(x1, y1, x2, y2, RDiv(x2, x1)))
      [] interpolation = "logLog" ->
            IF RLe(x1, Zero) \/ RLe(x2, Zero) \/ RLe(y1, Zero) \/ RLe(y2, Zero)
            THEN Fail("nfu_badIntegrationInput", Zero)
            ELSE Okay(logLogIntegral(x1, y1, x2, y2))
      [] interpolation = "flat" -> Okay(RMul(y1, RSub(x2, x1)))
      [] OTHER -> Fail("nfu_otherInterpolation", Zero)

VARIABLES
    ptwXY,      \* the function the caller owns: [points, interpolation, status]
    evaluator,  \* what the point-evaluator does for an x outside [x1,x2]
    call        \* the last call made on ptwXY and what it returned

vars == <<ptwXY, evaluator, call>>

\* ------------------------------------------------------------ collaborators
\* ptwXY_interpolatePoint: the interpolated y at x of the segment (x1,y1),
\* (x2,y2).  It fails under the positivity constraints of the log laws.  For
\* an x outside [x1,x2] it either rejects the call or evaluates the same
\* formula (extrapolates), as the variable evaluator says.
interpolatedY(interpolation, x, x1, y1, x2, y2) ==
    CASE interpolation = "flat" -> y1
      [] interpolation = "linLin" ->
            RDiv(RAdd(RMul(y1, RSub(x2, x)), RMul(y2, RSub(x, x1))), RSub(x2, x1))
      [] OTHER -> IF y1 = y2 THEN y1 ELSE NaR

ptwXY_interpolatePoint(interpolation, x, x1, y1, x2, y2) ==
    IF interpolation = "other" THEN Fail("nfu_otherInterpolation", Zero)
    ELSE IF (RLt(x, x1) \/ RGt(x, x2)) /\ evaluator = "reject"
    THEN Fail("nfu_invalidInterpolation", Zero)
    ELSE IF interpolation \in {"logLin", "logLog"} /\ (RLe(y1, Zero) \/ RLe(y2, Zero))
    THEN Fail("nfu_invalidInterpolation", Zero)
    ELSE IF interpolation \in {"linLog", "logLog"}
            /\ (RLe(x, Zero) \/ RLe(x1, Zero) \/ RLe(x2, Zero))
    THEN Fail("nfu_invalidInterpolation", Zero)
    ELSE Okay(interpolatedY(interpolation, x, x1, y1, x2, y2))

\* ptwXY_simpleCoalescePoints: the points are kept with strictly increasing
\* x, so merging duplicates changes nothing; it fails on a prior error.
ptwXY_simpleCoalescePoints(f) ==
    IF f.status # "nfu_Okay" THEN "nfu_badSelf" ELSE "nfu_Okay"

\* ptwXY_domainMin, ptwXY_domainMax of a function with at least one point.
ptwXY_domainMin(f) == f.points[1].x

ptwXY_domainMax(f) == f.points[Len(f.points)].x

\* -------------------------------------------------------- domain integrator
\* for( i = 0, point = ptwXY->points; i < n; i++, point++ )
\*     if( point->x >= domainMin ) break;
\* The index (from 1) of the first point with x >= domainMin, n + 1 if none.
RECURSIVE firstPointAtOrAbove(_, _, _)
firstPointAtOrAbove(points, domainMin, i) ==
    IF i > Len(points) THEN i
    ELSE IF RGe(points[i].x, domainMin) THEN i
    ELSE firstPointAtOrAbove(points, domainMin, i + 1)

\* The clipped last segment (x1,y1) .. (domainMax, y), y the point-evaluator's
\* answer at domainMax; then the loop breaks.
addLastSegment(value, dSum) ==
    IF dSum.status # "nfu_Okay" THEN Fail(dSum.status, value)
    ELSE Okay(RAdd(value, dSum.value))

integrateLastSegment(interpolation, x1, y1, domainMax, value, y) ==
    IF y.status # "nfu_Okay" THEN Fail(y.status, value)
    ELSE addLastSegment(value, ptwXY_f_integrate(interpolation, x1, y1, domainMax, y.value))

\* for( ; i < n; i++, point++ ): the segments from point i on, (x2, y2) the
\* point before it and value the *value so far.  An error return leaves
\* *value as it is.
RECURSIVE integrateSegments(_, _, _, _, _, _)
\* A variant of integrateWholeSegment with *value = dSum for *value += dSum.
lastWholeSegment(f, i, domainMax, value, dSum) ==
    IF dSum.status # "nfu_Okay" THEN Fail(dSum.status, value)
    ELSE integrateSegments(f, i + 1, f.points[i].x, f.points[i].y, domainMax, dSum.value)

\* dSum: the integral of the segment that ends at point i.
integrateWholeSegment(f, i, domainMax, value, dSum) ==
    IF dSum.status # "nfu_Okay" THEN Fail(dSum.status, value)
    ELSE integrateSegments(f, i + 1, f.points[i].x, f.points[i].y, domainMax,
                           RAdd(value, dSum.value))

integrateSegments(f, i, x2, y2, domainMax, value) ==
    IF i > Len(f.points) THEN Okay(value)
    ELSE IF RGt(f.points[i].x, domainMax)
    THEN integrateLastSegment(f.interpolation, x2, y2, domainMax, value,
             ptwXY_interpolatePoint(f.interpolation, domainMax, x2, y2,
                                    f.points[i].x, f.points[i].y))
    ELSE integrateWholeSegment(f, i, domainMax, value,
             ptwXY_f_integrate(f.interpolation, x2, y2, f.points[i].x, f.points[i].y))

\* *value *= _sign, on the return at the end of the routine only.
signed(sign, result) ==
    IF result.status = "nfu_Okay" THEN Okay(RMul(R(sign), result.value)) ELSE result

\* Both bounds inside the segment that ends at point i: the routine returns
\* the segment integrator's status and value as they are.
integrateInsideSegment(interpolation, domainMin, y, domainMax, rangeMax) ==
    IF rangeMax.status # "nfu_Okay" THEN Fail(rangeMax.status, Zero)
    ELSE ptwXY_f_integrate(interpolation, domainMin, y.value, domainMax, rangeMax.value)

\* A variant of integrateAfterPartial whose loop starts from *value = 0.
partialDropped(f, i, domainMax, sign, first) ==
    IF first.status # "nfu_Okay" THEN first
    ELSE signed(sign, integrateSegments(f, i + 1, f.points[i].x, f.points[i].y,
                                        domainMax, Zero))

\* first: the integral from domainMin to point i, written to *value.
integrateAfterPartial(f, i, domainMax, sign, first) ==
    IF first.status # "nfu_Okay" THEN first
    ELSE signed(sign, integrateSegments(f, i + 1, f.points[i].x, f.points[i].y,
                                        domainMax, first.value))

\* domainMin lies inside the segment that ends at point i; y is the
\* point-evaluator's answer at domainMin.
integratePartial(f, i, domainMin, domainMax, sign, y) ==
    IF y.status # "nfu_Okay" THEN Fail(y.status, Zero)
    ELSE IF RGt(f.points[i].x, domainMax)
    THEN integrateInsideSegment(f.interpolation, domainMin, y, domainMax,
             ptwXY_interpolatePoint(f.interpolation, domainMax, f.points[i - 1].x,
                 f.points[i - 1].y, f.points[i].x, f.points[i].y))
    ELSE integrateAfterPartial(f, i, domainMax, sign,
             ptwXY_f_integrate(f.interpolation, domainMin, y.value,
                               f.points[i].x, f.points[i].y))

\* i: the first point with x >= domainMin.
integrateFrom(f, i, domainMin, domainMax, sign) ==
    IF i = Len(f.points) + 1 THEN Okay(Zero)
    ELSE IF i > 1 /\ RGt(f.points[i].x, domainMin)
    THEN integratePartial(f, i, domainMin, domainMax, sign,
             ptwXY_interpolatePoint(f.interpolation, domainMin, f.points[i - 1].x,
                 f.points[i - 1].y, f.points[i].x, f.points[i].y))
    ELSE signed(sign, integrateSegments(f, i + 1, f.points[i].x, f.points[i].y,
                                        domainMax, Zero))

\* domainMin <= domainMax, _sign = sign.
integrateOrdered(f, domainMin, domainMax, sign) ==
    IF ptwXY_simpleCoalescePoints(f) # "nfu_Okay"
    THEN Fail(ptwXY_simpleCoalescePoints(f), Zero)
    ELSE integrateFrom(f, firstPointAtOrAbove(f.points, domainMin, 1),
                       domainMin, domainMax, sign)

\* A variant of ptwXY_integrate that holds the first y below the first x
\* instead of clipping the range to the domain.
extendedBelow(f, domainMin, result) ==
    IF result.status = "nfu_Okay" /\ RLt(domainMin, f.points[1].x)
    THEN Okay(RAdd(result.value, RMul(f.points[1].y, RSub(f.points[1].x, domainMin))))
    ELSE result

integrateExtended(f, domainMin, domainMax) ==
    IF f.status # "nfu_Okay" THEN Fail("nfu_badSelf", Zero)
    ELSE IF f.interpolation = "other" THEN Fail("nfu_otherInterpolation", Zero)
    ELSE IF Len(f.points) < 2 THEN Okay(Zero)
    ELSE IF RLt(domainMax, domainMin)
    THEN extendedBelow(f, domainMax, integrateOrdered(f, domainMax, domainMin, -1))
    ELSE extendedBelow(f, domainMin, integrateOrdered(f, domainMin, domainMax, 1))

ptwXY_integrate(f, domainMin, domainMax) ==
    IF f.status # "nfu_Okay" THEN Fail("nfu_badSelf", Zero)
    ELSE IF f.interpolation = "other" THEN Fail("nfu_otherInterpolation", Zero)
    ELSE IF Len(f.points) < 2 THEN Okay(Zero)
    ELSE IF RLt(domainMax, domainMin) THEN integrateOrdered(f, domainMax, domainMin, -1)
    ELSE integrateOrdered(f, domainMin, domainMax, 1)

ptwXY_integrateDomain(f) ==
    IF f.status # "nfu_Okay" THEN Fail("nfu_badSelf", Zero)
    ELSE IF Len(f.points) > 0
    THEN ptwXY_integrate(f, ptwXY_domainMin(f), ptwXY_domainMax(f))
    ELSE Okay(Zero)

\* A variant of dividedBy whose loop starts at i1 = 1.
dividedFromSecond(points, sum) ==
    [i1 \in 1..Len(points) |->
        [x |-> points[i1].x, y |-> IF i1 = 1 THEN points[i1].y ELSE RDiv(points[i1].y, sum)]]

\* for( i1 = 0; i1 < ptwXY->length; i1++ ) ptwXY->points[i1].y /= sum;
dividedBy(points, sum) ==
    [i1 \in 1..Len(points) |-> [x |-> points[i1].x, y |-> RDiv(points[i1].y, sum)]]

\* A variant of normalizeBy without the test of sum == 0.
normalizeUnchecked(f, sum) ==
    IF sum.status # "nfu_Okay" THEN [status |-> sum.status, f |-> f, reported |-> TRUE]
    ELSE [status |-> "nfu_Okay", reported |-> FALSE,
          f |-> [f EXCEPT !.points = dividedBy(f.points, sum.value)]]

\* A variant of normalizeBy that divides before it tests sum == 0.
normalizeDividing(f, sum) ==
    IF sum.status # "nfu_Okay" THEN [status |-> sum.status, f |-> f, reported |-> TRUE]
    ELSE IF sum.value = Zero
    THEN [status |-> "nfu_badNorm", reported |-> TRUE,
          f |-> [f EXCEPT !.points = dividedBy(f.points, sum.value)]]
    ELSE [status |-> "nfu_Okay", reported |-> FALSE,
          f |-> [f EXCEPT !.points = dividedBy(f.points, sum.value)]]

\* sum: what ptwXY_integrateDomain returned.
normalizeBy(f, sum) ==
    IF sum.status # "nfu_Okay" THEN [status |-> sum.status, f |-> f, reported |-> TRUE]
    ELSE IF sum.value = Zero THEN [status |-> "nfu_badNorm", f |-> f, reported |-> TRUE]
    ELSE [status |-> "nfu_Okay", reported |-> FALSE,
          f |-> [f EXCEPT !.points = dividedBy(f.points, sum.value)]]

\* The status ptwXY_normalize returns and the function it leaves behind.
ptwXY_normalize(f) == normalizeBy(f, ptwXY_integrateDomain(f))

\* ---------------------------------------------------- weighted integrators
\* The integral of x f(x) over one segment (x1,y1) .. (x2,y2).
\* inv_a1 * inv_a1 * ( exp( a1x2 ) * ( a1x2 - 1 ) - exp( a1x1 ) * ( a1x1 - 1 ) )
logLinWeighted(inv_a1, a1x1, a1x2) ==
    RMul(RMul(inv_a1, inv_a1),
         RSub(RMul(Exp(a1x2), RSub(a1x2, One)), RMul(Exp(a1x1), RSub(a1x1, One))))

\* a1 = 1 / inv_a1; a1x1 = a1 * x1; a1x2 = a1 * x2
logLinWeight_x(x1, x2, inv_a1) ==
    logLinWeighted(inv_a1, RMul(RDiv(One, inv_a1), x1), RMul(RDiv(One, inv_a1), x2))

weight_x(interpolation, x1, y1, x2, y2) ==
    CASE interpolation = "flat" ->
            RMul(RMul(RMul(Rat(1, 2), RSub(x2, x1)), y1), RAdd(x1, x2))
      [] interpolation = "linLin" ->
            RDiv(RMul(RSub(x2, x1),
                      RAdd(RMul(y1, RAdd(RMul(R(2), x1), x2)),
                           RMul(y2, RAdd(x1, RMul(R(2), x2))))),
                 R(6))
      [] interpolation = "logLin" ->
            logLinWeight_x(x1, x2, RDiv(RSub(x2, x1), Log(RDiv(y2, y1))))
      [] OTHER -> Zero

\* The integral of sqrt( x ) f(x) over one segment, times 15 / 2.
\* inv_apb = sqrt_x1 + sqrt_x2; c = 2. * ( sqrt_x1 * sqrt_x2 + x1 + x2 )
sqrtWeighted(interpolation, x1, y1, x2, y2, sqrt_x1, sqrt_x2, inv_apb, c) ==
    CASE interpolation = "flat" ->
            RMul(RMul(RMul(RSub(sqrt_x2, sqrt_x1), y1), Rat(5, 2)), c)
      [] interpolation = "linLin" ->
            RMul(RSub(sqrt_x2, sqrt_x1),
                 RAdd(RMul(y1, RAdd(c, RMul(x1, RAdd(One, RDiv(sqrt_x2, inv_apb))))),
                      RMul(y2, RAdd(c, RMul(x2, RAdd(One, RDiv(sqrt_x1, inv_apb)))))))
      [] OTHER -> Zero

sqrtWeight(interpolation, x1, y1, x2, y2, sqrt_x1, sqrt_x2) ==
    sqrtWeighted(interpolation, x1, y1, x2, y2, sqrt_x1, sqrt_x2,
                 RAdd(sqrt_x1, sqrt_x2),
                 RMul(R(2), RAdd(RAdd(RMul(sqrt_x1, sqrt_x2), x1), x2)))

weight_sqrt_x(interpolation, x1, y1, x2, y2) ==
    sqrtWeight(interpolation, x1, y1, x2, y2, Sqrt(x1), Sqrt(x2))

\* The term one segment adds to sum under the weight x or sqrt( x ).
weighted(weight, interpolation, x1, y1, x2, y2) ==
    IF weight = "x" THEN weight_x(interpolation, x1, y1, x2, y2)
    ELSE weight_sqrt_x(interpolation, x1, y1, x2, y2)

\* The segment clipped at domainMax, y the point-evaluator's answer there;
\* an error return leaves *value at the 0. of the entry.
weightedLastSegment(weight, interpolation, x1, y1, domainMax, sum, y) ==
    IF y.status # "nfu_Okay" THEN Fail(y.status, Zero)
    ELSE Okay(RAdd(sum, weighted(weight, interpolation, x1, y1, domainMax, y.value)))

\* for( ; i < n; ++i, ++point ): the segments from point i on, (x2, y2) the
\* point before it; if( x2 == domainMax ) break.  Both weighted integrators
\* walk the points in this way.
RECURSIVE weightedSegments(_, _, _, _, _, _, _)
weightedSegments(weight, f, i, x2, y2, domainMax, sum) ==
    IF i > Len(f.points) THEN Okay(sum)
    ELSE IF RGt(f.points[i].x, domainMax)
    THEN weightedLastSegment(weight, f.interpolation, x2, y2, domainMax, sum,
             ptwXY_interpolatePoint(f.interpolation, domainMax, x2, y2,
                                    f.points[i].x, f.points[i].y))
    ELSE IF f.points[i].x = domainMax
    THEN Okay(RAdd(sum, weighted(weight, f.interpolation, x2, y2,
                                 f.points[i].x, f.points[i].y)))
    ELSE weightedSegments(weight, f, i + 1, f.points[i].x, f.points[i].y, domainMax,
             RAdd(sum, weighted(weight, f.interpolation, x2, y2,
                                f.points[i].x, f.points[i].y)))

\* domainMin lies inside the segment that ends at point i: the walk starts
\* at (domainMin, y) and takes point i again.
weightedPartial(weight, f, i, domainMin, domainMax, y) ==
    IF y.status # "nfu_Okay" THEN Fail(y.status, Zero)
    ELSE weightedSegments(weight, f, i, domainMin, y.value, domainMax, Zero)

\* i: the first point with x >= domainMin.
weightedFrom(weight, f, i, domainMin, domainMax) ==
    IF i = Len(f.points) + 1 THEN Okay(Zero)
    ELSE IF i > 1 /\ RGt(f.points[i].x, domainMin)
    THEN weightedPartial(weight, f, i, domainMin, domainMax,
             ptwXY_interpolatePoint(f.interpolation, domainMin, f.points[i - 1].x,
                 f.points[i - 1].y, f.points[i].x, f.points[i].y))
    ELSE weightedSegments(weight, f, i + 1, f.points[i].x, f.points[i].y, domainMax, Zero)

\* *value = factor * sum on the return at the end of the routine; the
\* return for a range above the last point leaves *value at 0.
weightedValue(factor, result) ==
    IF result.status = "nfu_Okay" THEN Okay(RMul(factor, result.value)) ELSE result

\* domainMin <= domainMax; factor holds _sign.
weightedOrdered(weight, f, domainMin, domainMax, factor) ==
    IF ptwXY_simpleCoalescePoints(f) # "nfu_Okay" THEN Fail("nfu_Error", Zero)
    ELSE weightedValue(factor,
             weightedFrom(weight, f, firstPointAtOrAbove(f.points, domainMin, 1),
                          domainMin, domainMax))

\* A variant of ptwXY_integrateWithWeight_x that looks at the law only when
\* there are segments to integrate.
weight_xLawLate(f, domainMin, domainMax) ==
    IF f.status # "nfu_Okay" THEN Fail("nfu_badSelf", Zero)
    ELSE IF Len(f.points) < 2 THEN Okay(Zero)
    ELSE IF f.interpolation \notin {"linLin", "logLin", "flat"}
    THEN Fail("nfu_unsupportedInterpolation", Zero)
    ELSE IF RLt(domainMax, domainMin)
    THEN weightedOrdered("x", f, domainMax, domainMin, R(-1))
    ELSE weightedOrdered("x", f, domainMin, domainMax, One)

ptwXY_integrateWithWeight_x(f, domainMin, domainMax) ==
    IF f.status # "nfu_Okay" THEN Fail("nfu_badSelf", Zero)
    ELSE IF f.interpolation \notin {"linLin", "logLin", "flat"}
    THEN Fail("nfu_unsupportedInterpolation", Zero)
    ELSE IF Len(f.points) < 2 THEN Okay(Zero)
    ELSE IF RLt(domainMax, domainMin)
    THEN weightedOrdered("x", f, domainMax, domainMin, R(-1))
    ELSE weightedOrdered("x", f, domainMin, domainMax, One)

ptwXY_integrateDomainWithWeight_x(f) ==
    IF f.status # "nfu_Okay" THEN Fail("nfu_badSelf", Zero)
    ELSE IF Len(f.points) < 2 THEN Okay(Zero)
    ELSE ptwXY_integrateWithWeight_x(f, ptwXY_domainMin(f), ptwXY_domainMax(f))

\* *value = 2. / 15. * _sign * sum
ptwXY_integrateWithWeight_sqrt_x(f, domainMin, domainMax) ==
    IF f.status # "nfu_Okay" THEN Fail("nfu_badSelf", Zero)
    ELSE IF f.interpolation \notin {"linLin", "flat"}
    THEN Fail("nfu_unsupportedInterpolation", Zero)
    ELSE IF Len(f.points) < 2 THEN Okay(Zero)
    ELSE IF RLt(domainMax, domainMin)
    THEN weightedOrdered("sqrt_x", f, domainMax, domainMin, Rat(-2, 15))
    ELSE weightedOrdered("sqrt_x", f, domainMin, domainMax, Rat(2, 15))

ptwXY_integrateDomainWithWeight_sqrt_x(f) ==
    IF f.status # "nfu_Okay" THEN Fail("nfu_badSelf", Zero)
    ELSE IF Len(f.points) < 2 THEN Okay(Zero)
    ELSE ptwXY_integrateWithWeight_sqrt_x(f, ptwXY_domainMin(f), ptwXY_domainMax(f))

\* ------------------------------------------------------- running integral
\* for( i = 1; i < ptwXY->length; i++ ): the entries from index i on.
\* Err: the message, then ptwX_free( runningIntegral ), then NULL.
runningErr(status) == vector(status, <<>>, {"runningIntegral"}, <<"runningIntegral">>)

RECURSIVE runningSums(_, _, _, _)
\* A variant of runningSum that stores each segment's integral, not the
\* integral so far.
segmentSum(f, i, integral, out, sum) ==
    IF sum.status # "nfu_Okay" THEN runningErr(sum.status)
    ELSE runningSums(f, i + 1, RAdd(integral, sum.value), Append(out, sum.value))

\* sum: the integral of the segment that ends at point i.
runningSum(f, i, integral, out, sum) ==
    IF sum.status # "nfu_Okay" THEN runningErr(sum.status)
    ELSE runningSums(f, i + 1, RAdd(integral, sum.value),
                     Append(out, RAdd(integral, sum.value)))

runningSums(f, i, integral, out) ==
    IF i > Len(f.points) THEN vector("nfu_Okay", out, {"runningIntegral"}, <<>>)
    ELSE runningSum(f, i, integral, out,
             ptwXY_f_integrate(f.interpolation, f.points[i - 1].x, f.points[i - 1].y,
                               f.points[i].x, f.points[i].y))

\* A variant of ptwXY_runningIntegral without the entry 0 of the first point.
runningFromSecond(f, emptyOk) ==
    IF ptwXY_simpleCoalescePoints(f) # "nfu_Okay"
    THEN vector(ptwXY_simpleCoalescePoints(f), <<>>, {}, <<>>)
    ELSE IF Len(f.points) = 0 /\ ~emptyOk THEN runningErr("nfu_badIndex")
    ELSE runningSums(f, 2, Zero, <<>>)

\* A result other than nfu_Okay stands for the NULL return.  emptyOk: whether
\* ptwX_setPointAtIndex accepts index 0 of a vector made for 0 points.
ptwXY_runningIntegral(f, emptyOk) ==
    IF ptwXY_simpleCoalescePoints(f) # "nfu_Okay"
    THEN vector(ptwXY_simpleCoalescePoints(f), <<>>, {}, <<>>)
    ELSE IF Len(f.points) = 0 /\ ~emptyOk THEN runningErr("nfu_badIndex")
    ELSE runningSums(f, 2, Zero, <<Zero>>)

\* -------------------------------------------- collaborators of the grouping
\* A ptwXPoints vector is a sequence of doubles.
ptwX_length(ptwX) == Len(ptwX)

\* ptwX_createLine( smr, n, n, 0, 0 ): n entries 0 * i + 0.
ptwX_createLine(n) == [i \in 1..n |-> Zero]

RMax(p, q) == IF RLt(p, q) THEN q ELSE p

RMin(p, q) == IF RLt(p, q) THEN p ELSE q

\* The elements of a finite set of doubles in increasing order.
RECURSIVE sorted(_)
least(S) == CHOOSE x \in S : \A y \in S : RLe(x, y)

sorted(S) == IF S = {} THEN <<>> ELSE <<least(S)>> \o sorted(S \ {least(S)})

xsOf(points) == { points[i].x : i \in 1..Len(points) }

\* The value of f at x, its first x <= x <= its last x: the y of the point
\* at x, else the point-evaluator's answer inside the segment around x.
pointAt(f, x) == CHOOSE i \in 1..Len(f.points) : f.points[i].x = x

segmentOf(f, x) == CHOOSE i \in 2..Len(f.points) : RLt(f.points[i - 1].x, x) /\ RLt(x, f.points[i].x)

valueAt(f, x) ==
    IF x \in xsOf(f.points) THEN Okay(f.points[pointAt(f, x)].y)
    ELSE ptwXY_interpolatePoint(f.interpolation, x,
             f.points[segmentOf(f, x) - 1].x, f.points[segmentOf(f, x) - 1].y,
             f.points[segmentOf(f, x)].x, f.points[segmentOf(f, x)].y)

\* f on the breakpoints xs (a sequence of x inside its domain): NULL when an
\* evaluation fails.
onBreakpoints(f, xs) ==
    IF \E k \in 1..Len(xs) : valueAt(f, xs[k]).status # "nfu_Okay"
    THEN [status |-> "nfu_Error", f |-> f]
    ELSE [status |-> "nfu_Okay",
          f |-> [f EXCEPT !.points = [k \in 1..Len(xs) |->
                                         [x |-> xs[k], y |-> valueAt(f, xs[k]).value]]]]

\* ptwXY_intersectionWith_ptwX: f restricted to the part of its domain
\* inside [first boundary, last boundary], with a point added at every
\* boundary inside it; no points when the two do not overlap.
inOverlap(f, ptwX, x) ==
    /\ RGe(x, RMax(ptwXY_domainMin(f), ptwX[1]))
    /\ RLe(x, RMin(ptwXY_domainMax(f), ptwX[Len(ptwX)]))

ptwXY_intersectionWith_ptwX(f, ptwX) ==
    IF f.status # "nfu_Okay" THEN [status |-> "nfu_badSelf", f |-> f]
    ELSE IF Len(f.points) = 0 \/ Len(ptwX) = 0
    THEN [status |-> "nfu_Okay", f |-> [f EXCEPT !.points = <<>>]]
    ELSE IF RGe(ptwXY_domainMin(f), ptwX[Len(ptwX)]) \/ RLe(ptwXY_domainMax(f), ptwX[1])
    THEN [status |-> "nfu_Okay", f |-> [f EXCEPT !.points = <<>>]]
    ELSE onBreakpoints(f, sorted({ x \in xsOf(f.points) \cup { ptwX[k] : k \in 1..Len(ptwX) } :
                                     inOverlap(f, ptwX, x) }))

\* ptwXY_tweakDomainsToMutualify( smr, ff, gg, 4, 0 ): domain edges that differ
\* by a few units of rounding are made equal.  The edges of the model's
\* functions are equal or far apart, so nothing is changed.
ptwXY_tweakDomainsToMutualify(ff, gg) == "nfu_Okay"

\* ptwXY_union( smr, f1, f2, ptwXY_union_fill ): f1 on the breakpoints of both,
\* filled with its own interpolated value inside its domain and with 0
\* outside it.
filledAt(f1, x) ==
    IF RLt(x, ptwXY_domainMin(f1)) \/ RGt(x, ptwXY_domainMax(f1)) THEN Okay(Zero)
    ELSE valueAt(f1, x)

ptwXY_union(f1, f2) ==
    IF \E x \in xsOf(f2.points) : filledAt(f1, x).status # "nfu_Okay"
    THEN [status |-> "nfu_Error", f |-> f1]
    ELSE [status |-> "nfu_Okay",
          f |-> [f1 EXCEPT !.points =
                    [k \in 1..Cardinality(xsOf(f1.points) \cup xsOf(f2.points)) |->
                        [x |-> sorted(xsOf(f1.points) \cup xsOf(f2.points))[k],
                         y |-> filledAt(f1, sorted(xsOf(f1.points) \cup xsOf(f2.points))[k]).value]]]]

\* ---------------------------------------------------------- group integrals
\* A call of a group routine returns the vector data, or NULL (data = <<>>)
\* with status the first error it reported; allocated holds the structures
\* the call created and released the ptwXY_free / ptwX_free calls it made,
\* in order.
grouped(status, data, allocated, released) ==
    vector(status, data, allocated, released)

\* The returns that precede every allocation.
rejected(status) == grouped(status, <<>>, {}, <<>>)

\* if( normType == ptwXY_group_normType_norm ): the norm vector must be
\* there and have one entry per group.
normStatus(ngs, normType, ptwX_norm) ==
    IF normType # "norm" THEN "nfu_Okay"
    ELSE IF ptwX_norm.null THEN "nfu_badNorm"
    ELSE IF ptwX_length(ptwX_norm.points) # ngs THEN "nfu_badNorm"
    ELSE "nfu_Okay"

\* y2p: the right-hand value of the segment ending at point i, which for
\* the flat law is the left-hand one.
primed(f, i, y1) == IF f.interpolation = "flat" THEN y1 ELSE f.points[i].y

\* A variant of oneTerm with y2p = y1 for every law.
oneTermFlat(f, i, x1, y1) ==
    RMul(RAdd(y1, y1), RSub(f.points[i].x, x1))

\* sum += ( y1 + y2p ) * ( x2 - x1 )
oneTerm(f, i, x1, y1) ==
    RMul(RAdd(y1, primed(f, i, y1)), RSub(f.points[i].x, x1))

\* sum += ( ( fy1 + fy2p ) * ( gy1 + gy2p ) + fy1 * gy1 + fy2p * gy2p ) * ( x2 - x1 )
twoTerm(f, g, i, x1, fy1, gy1) ==
    RMul(RAdd(RAdd(RMul(RAdd(fy1, primed(f, i, fy1)), RAdd(gy1, primed(g, i, gy1))),
                   RMul(fy1, gy1)),
              RMul(primed(f, i, fy1), primed(g, i, gy1))),
         RSub(f.points[i].x, x1))

\* sum += ( ( fy1 + fy2p ) * ( gy1 + gy2p ) * ( hy1 + hy2p )
\*          + 2 * fy1 * gy1 * hy1 + 2 * fy2p * gy2p * hy2p ) * ( x2 - x1 )
threeTerm(f, g, h, i, x1, fy1, gy1, hy1) ==
    RMul(RAdd(RAdd(RMul(RMul(RAdd(fy1, primed(f, i, fy1)), RAdd(gy1, primed(g, i, gy1))),
                        RAdd(hy1, primed(h, i, hy1))),
                   RMul(R(2), RMul(RMul(fy1, gy1), hy1))),
              RMul(R(2), RMul(RMul(primed(f, i, fy1), primed(g, i, gy1)), primed(h, i, hy1)))),
         RSub(f.points[i].x, x1))

\* The term of the routine for the functions fs (f; f, g; or f, g, h), which
\* share their breakpoints.
term(fs, i, x1, ys1) ==
    CASE Len(fs) = 1 -> oneTerm(fs[1], i, x1, ys1[1])
      [] Len(fs) = 2 -> twoTerm(fs[1], fs[2], i, x1, ys1[1], ys1[2])
      [] OTHER -> threeTerm(fs[1], fs[2], fs[3], i, x1, ys1[1], ys1[2], ys1[3])

\* for( ; i < f->length; i++, x1 = x2, y1 = y2 ): the points of one group,
\* up to its upper boundary xg2.  The loop variables are returned.
RECURSIVE groupSum(_, _, _, _, _, _)
groupSum(fs, i, x1, ys1, xg2, sum) ==
    IF i > Len(fs[1].points) \/ RGt(fs[1].points[i].x, xg2)
    THEN [i |-> i, x1 |-> x1, ys1 |-> ys1, sum |-> sum]
    ELSE groupSum(fs, i + 1, fs[1].points[i].x, [k \in 1..Len(fs) |-> fs[k].points[i].y],
                  xg2, RAdd(sum, term(fs, i, x1, ys1)))

\* A variant of normalized without the test of sum != 0.
normalizedAlways(sum, normType, ptwX_norm, igs, xg1, xg2) ==
    IF normType = "dx" THEN Okay(RDiv(sum, RSub(xg2, xg1)))
    ELSE IF normType = "norm"
    THEN IF ptwX_norm.points[igs] = Zero THEN Fail("nfu_divByZero", Zero)
         ELSE Okay(RDiv(sum, ptwX_norm.points[igs]))
    ELSE Okay(sum)

\* if( sum != 0. ): the sum of group igs divided by its width or by its
\* norm entry.
normalized(sum, normType, ptwX_norm, igs, xg1, xg2) ==
    IF sum = Zero THEN Okay(sum)
    ELSE IF normType = "dx" THEN Okay(RDiv(sum, RSub(xg2, xg1)))
    ELSE IF normType = "norm"
    THEN IF ptwX_norm.points[igs] = Zero THEN Fail("nfu_divByZero", Zero)
         ELSE Okay(RDiv(sum, ptwX_norm.points[igs]))
    ELSE Okay(sum)

\* for( igs = 0, i = 1; igs < ngs; igs++ ): one entry per group, in the
\* order of the boundaries; at is the loop variables after the previous
\* group.
RECURSIVE groups(_, _, _, _, _, _, _, _)
storeGroup(fs, groupBoundaries, normType, ptwX_norm, factor, igs, at, data, n) ==
    IF n.status # "nfu_Okay" THEN [status |-> n.status, data |-> <<>>]
    ELSE groups(fs, groupBoundaries, normType, ptwX_norm, factor, igs + 1, at,
                Append(data, RMul(factor, n.value)))

summedGroup(fs, groupBoundaries, normType, ptwX_norm, factor, igs, at, data) ==
    storeGroup(fs, groupBoundaries, normType, ptwX_norm, factor, igs, at, data,
               normalized(at.sum, normType, ptwX_norm, igs,
                          groupBoundaries[igs], groupBoundaries[igs + 1]))

groups(fs, groupBoundaries, normType, ptwX_norm, factor, igs, at, data) ==
    IF igs > Len(groupBoundaries) - 1 THEN [status |-> "nfu_Okay", data |-> data]
    ELSE summedGroup(fs, groupBoundaries, normType, ptwX_norm, factor, igs,
                     IF RGt(groupBoundaries[igs + 1], at.x1)
                     THEN groupSum(fs, at.i, at.x1, at.ys1, groupBoundaries[igs + 1], Zero)
                     ELSE [at EXCEPT !.sum = Zero],
                     data)

\* xg1 = groupBoundaries->points[0]; x1 = f->points[0].x; y1 = f->points[0].y;
groupsOf(fs, groupBoundaries, normType, ptwX_norm, factor) ==
    groups(fs, groupBoundaries, normType, ptwX_norm, factor, 1,
           [i |-> 2, x1 |-> fs[1].points[1].x,
            ys1 |-> [k \in 1..Len(fs) |-> fs[k].points[1].y], sum |-> Zero],
           <<>>)

\* ptwXY_groupOneFunction, from the intersection f on.  On the return of the
\* all-zero vector f is not freed.
oneGrouped(r) ==
    IF r.status = "nfu_Okay"
    THEN grouped("nfu_Okay", r.data, {"f", "groupedData"}, <<"f">>)
    ELSE grouped(r.status, <<>>, {"f", "groupedData"}, <<"f", "groupedData">>)

\* A variant of oneIntersected that takes an empty intersection for an error.
emptyIsError(f, groupBoundaries, normType, ptwX_norm) ==
    IF f.status # "nfu_Okay" THEN rejected("nfu_Error")
    ELSE IF Len(f.f.points) = 0
    THEN grouped("nfu_Error", <<>>, {"f"}, <<"f">>)
    ELSE oneGrouped(groupsOf(<<f.f>>, groupBoundaries, normType, ptwX_norm, Rat(1, 2)))

oneIntersected(f, groupBoundaries, normType, ptwX_norm) ==
    IF f.status # "nfu_Okay" THEN rejected("nfu_Error")
    ELSE IF Len(f.f.points) = 0
    THEN grouped("nfu_Okay", ptwX_createLine(Len(groupBoundaries) - 1),
                 {"f", "groupedData"}, <<>>)
    ELSE oneGrouped(groupsOf(<<f.f>>, groupBoundaries, normType, ptwX_norm, Rat(1, 2)))

\* A variant of ptwXY_groupOneFunction that looks at the norm vector only
\* after it has intersected the function with the grid and found points.
groupOneNormLate(f1, groupBoundaries, normType, ptwX_norm) ==
    IF ptwXY_simpleCoalescePoints(f1) # "nfu_Okay"
    THEN rejected(ptwXY_simpleCoalescePoints(f1))
    ELSE IF f1.interpolation = "other" THEN rejected("nfu_otherInterpolation")
    ELSE IF /\ ptwXY_intersectionWith_ptwX(f1, groupBoundaries).status = "nfu_Okay"
            /\ Len(ptwXY_intersectionWith_ptwX(f1, groupBoundaries).f.points) > 0
            /\ normStatus(Len(groupBoundaries) - 1, normType, ptwX_norm) # "nfu_Okay"
    THEN rejected(normStatus(Len(groupBoundaries) - 1, normType, ptwX_norm))
    ELSE oneIntersected(ptwXY_intersectionWith_ptwX(f1, groupBoundaries),
                        groupBoundaries, normType, ptwX_norm)

ptwXY_groupOneFunction(f1, groupBoundaries, normType, ptwX_norm) ==
    IF ptwXY_simpleCoalescePoints(f1) # "nfu_Okay"
    THEN rejected(ptwXY_simpleCoalescePoints(f1))
    ELSE IF f1.interpolation = "other" THEN rejected("nfu_otherInterpolation")
    ELSE IF normStatus(Len(groupBoundaries) - 1, normType, ptwX_norm) # "nfu_Okay"
    THEN rejected(normStatus(Len(groupBoundaries) - 1, normType, ptwX_norm))
    ELSE oneIntersected(ptwXY_intersectionWith_ptwX(f1, groupBoundaries),
                        groupBoundaries, normType, ptwX_norm)

\* ptwXY_groupTwoFunctions, from the intersections ff and gg on.  Err frees
\* ff a second time, and not f, once the union f exists.
twoGrouped(r) ==
    IF r.status = "nfu_Okay"
    THEN grouped("nfu_Okay", r.data, {"ff", "gg", "f", "g", "groupedData"},
                 <<"f", "g", "ff", "gg">>)
    ELSE grouped(r.status, <<>>, {"ff", "gg", "f", "g", "groupedData"},
                 <<"ff", "gg", "ff", "g", "groupedData">>)

twoUnited(f, g, groupBoundaries, normType, ptwX_norm) ==
    IF g.status # "nfu_Okay"
    THEN grouped("nfu_Error", <<>>, {"ff", "gg", "f"}, <<"ff", "gg", "ff">>)
    ELSE twoGrouped(groupsOf(<<f, g.f>>, groupBoundaries, normType, ptwX_norm, Rat(1, 6)))

twoMerged(gg, f, groupBoundaries, normType, ptwX_norm) ==
    IF f.status # "nfu_Okay"
    THEN grouped("nfu_Error", <<>>, {"ff", "gg"}, <<"ff", "gg">>)
    ELSE twoUnited(f.f, ptwXY_union(gg, f.f), groupBoundaries, normType, ptwX_norm)

twoIntersected(ff, gg, groupBoundaries, normType, ptwX_norm) ==
    IF ff.status # "nfu_Okay" THEN rejected("nfu_Error")
    ELSE IF gg.status # "nfu_Okay" THEN grouped("nfu_Error", <<>>, {"ff"}, <<"ff">>)
    ELSE IF Len(ff.f.points) = 0 \/ Len(gg.f.points) = 0
    THEN grouped("nfu_Okay", ptwX_createLine(Len(groupBoundaries) - 1),
                 {"ff", "gg", "groupedData"}, <<"ff", "gg">>)
    ELSE IF ptwXY_tweakDomainsToMutualify(ff.f, gg.f) # "nfu_Okay"
    THEN grouped("nfu_Error", <<>>, {"ff", "gg"}, <<"ff", "gg">>)
    ELSE twoMerged(gg.f, ptwXY_union(ff.f, gg.f), groupBoundaries, normType, ptwX_norm)

ptwXY_groupTwoFunctions(f1, f2, groupBoundaries, normType, ptwX_norm) ==
    IF ptwXY_simpleCoalescePoints(f1) # "nfu_Okay"
    THEN rejected(ptwXY_simpleCoalescePoints(f1))
    ELSE IF ptwXY_simpleCoalescePoints(f2) # "nfu_Okay"
    THEN rejected(ptwXY_simpleCoalescePoints(f2))
    ELSE IF f1.interpolation = "other" \/ f2.interpolation = "other"
    THEN rejected("nfu_otherInterpolation")
    ELSE IF normStatus(Len(groupBoundaries) - 1, normType, ptwX_norm) # "nfu_Okay"
    THEN rejected(normStatus(Len(groupBoundaries) - 1, normType, ptwX_norm))
    ELSE twoIntersected(ptwXY_intersectionWith_ptwX(f1, groupBoundaries),
                        ptwXY_intersectionWith_ptwX(f2, groupBoundaries),
                        groupBoundaries, normType, ptwX_norm)

\* ptwXY_groupThreeFunctions, from the intersections ff, gg and hh on.
threeGrouped(r) ==
    IF r.status = "nfu_Okay"
    THEN grouped("nfu_Okay", r.data, {"ff", "gg", "hh", "fff", "h", "f", "g", "groupedData"},
                 <<"f", "g", "h", "ff", "gg", "hh", "fff">>)
    ELSE grouped(r.status, <<>>, {"ff", "gg", "hh", "fff", "h", "f", "g", "groupedData"},
                 <<"fff", "ff", "gg", "hh", "f", "g", "h", "groupedData">>)

threeUnited(f, g, h, groupBoundaries, normType, ptwX_norm) ==
    IF g.status # "nfu_Okay"
    THEN grouped("nfu_Error", <<>>, {"ff", "gg", "hh", "fff", "h", "f"},
                 <<"fff", "ff", "gg", "hh", "f", "h">>)
    ELSE threeGrouped(groupsOf(<<f, g.f, h>>, groupBoundaries, normType, ptwX_norm, Rat(1, 12)))

threeFilled(gg, h, f, groupBoundaries, normType, ptwX_norm) ==
    IF f.status # "nfu_Okay"
    THEN grouped("nfu_Error", <<>>, {"ff", "gg", "hh", "fff", "h"},
                 <<"fff", "ff", "gg", "hh", "h">>)
    ELSE threeUnited(f.f, ptwXY_union(gg, h), h, groupBoundaries, normType, ptwX_norm)

threeJoined(gg, fff, h, groupBoundaries, normType, ptwX_norm) ==
    IF h.status # "nfu_Okay"
    THEN grouped("nfu_Error", <<>>, {"ff", "gg", "hh", "fff"}, <<"fff", "ff", "gg", "hh">>)
    ELSE threeFilled(gg, h.f, ptwXY_union(fff, h.f), groupBoundaries, normType, ptwX_norm)

threeMerged(gg, hh, fff, groupBoundaries, normType, ptwX_norm) ==
    IF fff.status # "nfu_Okay"
    THEN grouped("nfu_Error", <<>>, {"ff", "gg", "hh"}, <<"ff", "gg", "hh">>)
    ELSE threeJoined(gg, fff.f, ptwXY_union(hh, fff.f), groupBoundaries, normType, ptwX_norm)

threeIntersected(ff, gg, hh, groupBoundaries, normType, ptwX_norm) ==
    IF ff.status # "nfu_Okay" THEN rejected("nfu_Error")
    ELSE IF gg.status # "nfu_Okay" THEN grouped("nfu_Error", <<>>, {"ff"}, <<"ff">>)
    ELSE IF hh.status # "nfu_Okay"
    THEN grouped("nfu_Error", <<>>, {"ff", "gg"}, <<"ff", "gg">>)
    ELSE IF Len(ff.f.points) = 0 \/ Len(gg.f.points) = 0 \/ Len(hh.f.points) = 0
    THEN grouped("nfu_Okay", ptwX_createLine(Len(groupBoundaries) - 1),
                 {"ff", "gg", "hh", "groupedData"}, <<"ff", "gg", "hh">>)
    ELSE IF \/ ptwXY_tweakDomainsToMutualify(ff.f, gg.f) # "nfu_Okay"
            \/ ptwXY_tweakDomainsToMutualify(ff.f, hh.f) # "nfu_Okay"
            \/ ptwXY_tweakDomainsToMutualify(gg.f, hh.f) # "nfu_Okay"
    THEN grouped("nfu_Error", <<>>, {"ff", "gg", "hh"}, <<"ff", "gg", "hh">>)
    ELSE threeMerged(gg.f, hh.f, ptwXY_union(ff.f, gg.f), groupBoundaries, normType, ptwX_norm)

ptwXY_groupThreeFunctions(f1, f2, f3, groupBoundaries, normType, ptwX_norm) ==
    IF ptwXY_simpleCoalescePoints(f1) # "nfu_Okay"
    THEN rejected(ptwXY_simpleCoalescePoints(f1))
    ELSE IF ptwXY_simpleCoalescePoints(f2) # "nfu_Okay"
    THEN rejected(ptwXY_simpleCoalescePoints(f2))
    ELSE IF ptwXY_simpleCoalescePoints(f3) # "nfu_Okay"
    THEN rejected(ptwXY_simpleCoalescePoints(f3))
    ELSE IF f1.interpolation = "other" \/ f2.interpolation = "other" \/ f3.interpolation = "other"
    THEN rejected("nfu_otherInterpolation")
    ELSE IF normStatus(Len(groupBoundaries) - 1, normType, ptwX_norm) # "nfu_Okay"
    THEN rejected(normStatus(Len(groupBoundaries) - 1, normType, ptwX_norm))
    ELSE threeIntersected(ptwXY_intersectionWith_ptwX(f1, groupBoundaries),
                          ptwXY_intersectionWith_ptwX(f2, groupBoundaries),
                          ptwXY_intersectionWith_ptwX(f3, groupBoundaries),
                          groupBoundaries, normType, ptwX_norm)

\* A structure freed twice is undefined behaviour: the call returns as if
\* nothing had happened, or the allocator ends the process.
freedTwice(r) ==
    \E i, j \in 1..Len(r.released) : i # j /\ r.released[i] = r.released[j]

outcomes(r) ==
    IF freedTwice(r) THEN {r, [r EXCEPT !.status = "abort"]} ELSE {r}

\* ------------------------------------------------- integral with a function
\* nf_GnG_adaptiveQuadrature over [xa, xb] of the integrand
\* ptwXY_integrateWithFunction3: func( x ) times the y interpolated at x on
\* the segment (x1,y1) .. (x2,y2).  It fails when the point evaluator or
\* func fails, both called with no smr; for the integrand func( x ) = 1 the
\* adaptive quadrature gives the integral of the interpolated segment.
\* ya, yb: the point evaluator's answers at xa and xb.
quadrature(interpolation, func, xa, ya, xb, yb) ==
    IF ya.status # "nfu_Okay" THEN Unreported(ya.status)
    ELSE IF yb.status # "nfu_Okay" THEN Unreported(yb.status)
    ELSE IF func = "fails" THEN Unreported("nfu_Error")
    ELSE ptwXY_f_integrate(interpolation, xa, ya.value, xb, yb.value)

nf_GnG_adaptiveQuadrature(interpolation, func, x1, y1, x2, y2, xa, xb) ==
    quadrature(interpolation, func,
               xa, ptwXY_interpolatePoint(interpolation, xa, x1, y1, x2, y2),
               xb, ptwXY_interpolatePoint(interpolation, xb, x1, y1, x2, y2))

\* for( i1 = 0; i1 < ( n1 - 1 ); i1++ ) if( ptwXY->points[i1+1].x > domainMin ) break;
\* Counted from 1.
RECURSIVE firstBracket(_, _, _)
firstBracket(points, domainMin, i1) ==
    IF i1 >= Len(points) THEN i1
    ELSE IF RGt(points[i1 + 1].x, domainMin) THEN i1
    ELSE firstBracket(points, domainMin, i1 + 1)

\* for( i2 = n1 - 1; i2 > i1; i2-- ) if( ptwXY->points[i2-1].x < domainMax ) break;
RECURSIVE lastBracket(_, _, _, _)
lastBracket(points, i1, domainMax, i2) ==
    IF i2 > i1 /\ ~RLt(points[i2 - 1].x, domainMax)
    THEN lastBracket(points, i1, domainMax, i2 - 1)
    ELSE i2

\* for( ; i1 < i2; i1++ ): a failed quadrature returns its status and leaves
\* *value as the caller had it (prior); the end of the loop writes
\* *value = integral, and sign is not read.
RECURSIVE functionSegments(_, _, _, _, _, _, _, _)
\* A return of ptwXY_integrateWithFunction, and the calls of
\* nf_GnG_adaptiveQuadrature made before it: passed lists, in order, the
\* segment x1, x2 and the interval xa, xb of each call.
returning(r) == r @@ [passed |-> <<>>]

passing(x1, x2, xa, xb, r) ==
    [r EXCEPT !.passed = <<[x1 |-> x1, x2 |-> x2, xa |-> xa, xb |-> xb]>> \o @]

\* A variant of functionSegment without the message of line 995.
functionSegmentSilent(f, func, i1, i2, xb, domainMax, integral, prior, integral_) ==
    IF integral_.status # "nfu_Okay" THEN returning(Unreported(integral_.status))
    ELSE functionSegments(f, func, i1 + 1, i2, xb, domainMax,
                          RAdd(integral, integral_.value), prior)

\* A variant of functionSegment that goes on to the next segment after a
\* failed quadrature.
functionSegmentSkipping(f, func, i1, i2, xb, domainMax, integral, prior, integral_) ==
    IF integral_.status # "nfu_Okay"
    THEN functionSegments(f, func, i1 + 1, i2, xb, domainMax, integral, prior)
    ELSE functionSegments(f, func, i1 + 1, i2, xb, domainMax,
                          RAdd(integral, integral_.value), prior)

functionSegment(f, func, i1, i2, xb, domainMax, integral, prior, integral_) ==
    IF integral_.status # "nfu_Okay" THEN returning(Fail(integral_.status, prior))
    ELSE functionSegments(f, func, i1 + 1, i2, xb, domainMax,
                          RAdd(integral, integral_.value), prior)

functionSegments(f, func, i1, i2, xa, domainMax, integral, prior) ==
    IF i1 >= i2 THEN returning(Okay(integral))
    ELSE passing(f.points[i1].x, f.points[i1 + 1].x, xa,
                 RMin(f.points[i1 + 1].x, domainMax),
             functionSegment(f, func, i1, i2, RMin(f.points[i1 + 1].x, domainMax),
                 domainMax, integral, prior,
                 nf_GnG_adaptiveQuadrature(f.interpolation, func,
                     f.points[i1].x, f.points[i1].y, f.points[i1 + 1].x, f.points[i1 + 1].y,
                     xa, RMin(f.points[i1 + 1].x, domainMax))))

functionBracketed(f, func, domainMin, domainMax, prior, i1) ==
    functionSegments(f, func, i1, lastBracket(f.points, i1, domainMax, Len(f.points)),
                     domainMin, domainMax, Zero, prior)

\* domainMin < domainMax.  return( 0. ) is a return of nfu_Okay that does not
\* write *value.
functionOrdered(f, func, domainMin, domainMax, prior) ==
    IF RGe(domainMin, f.points[Len(f.points)].x) THEN returning(Okay(prior))
    ELSE IF RLe(domainMax, f.points[1].x) THEN returning(Okay(prior))
    ELSE functionBracketed(f, func, domainMin, domainMax, prior,
                           firstBracket(f.points, domainMin, 1))

\* prior: what *value holds when the routine is called.
ptwXY_integrateWithFunction(f, func, domainMin, domainMax, prior) ==
    IF ptwXY_simpleCoalescePoints(f) # "nfu_Okay" THEN returning(Fail("nfu_Error", prior))
    ELSE IF domainMin = domainMax THEN returning(Okay(prior))
    ELSE IF Len(f.points) < 2 THEN returning(Okay(prior))
    ELSE IF RGt(domainMin, domainMax)
    THEN functionOrdered(f, func, domainMax, domainMin, prior)
    ELSE functionOrdered(f, func, domainMin, domainMax, prior)

\* ------------------------------------------------------------------ inputs
Laws == {"linLin", "logLin", "linLog", "logLog", "flat", "other"}

\* The y values of the generated functions: of either sign for the linear
\* laws; for the laws with a log, whose segment integral is rational only
\* between equal y, one positive value, and 0 where the law rejects it.
YValues(interpolation) ==
    CASE interpolation \in {"linLin", "flat"} -> {R(-2), R(2), R(4)}
      [] interpolation \in {"logLin", "logLog"} -> {R(0), R(2)}
      [] OTHER -> {R(2)}

\* Point i of a generated function has x = 2 i.
pointsOf(ys) == [i \in 1..Len(ys) |-> [x |-> R(2 * i), y |-> ys[i]]]

\* double XYs[8] = { 2., 2., 4., 4., 6., 2., 8., 6. } of the integration test.
XYs == <<[x |-> R(2), y |-> R(2)], [x |-> R(4), y |-> R(4)],
         [x |-> R(6), y |-> R(2)], [x |-> R(8), y |-> R(6)]>>

Functions ==
    { [points |-> XYs, interpolation |-> "linLin", status |-> "nfu_Okay"] }
    \cup
    UNION { { [points |-> pointsOf(ys), interpolation |-> law, status |-> st] :
                ys \in UNION { [1..n -> YValues(law)] : n \in 0..MaxLen },
                st \in {"nfu_Okay", "nfu_Error"} } : law \in Laws }

\* The bounds a caller passes: below, at, between and above the points, and
\* two values strictly inside the first segment.
DomainValues == { R(k) : k \in 1..(2 * MaxLen + 3) } \cup { Rat(5, 2) }

\* The group boundaries: below the points (0, 1), inside a segment (3, 5)
\* and at a point (4); a grid has at most MaxBins groups, none wider than
\* a segment.
BoundaryValues == {R(0), R(1), R(3), R(4), R(5)}

increasing(xs) ==
    \A k \in 2..Len(xs) : RLt(xs[k - 1], xs[k]) /\ RLe(RSub(xs[k], xs[k - 1]), R(2))

Grids ==
    { xs \in UNION { [1..n -> BoundaryValues] : n \in 2..(MaxBins + 1) } : increasing(xs) }

\* The norm vectors: none, or one of up to MaxBins entries 2, at most one of
\* them 0 instead.
NullNorm == [null |-> TRUE, points |-> <<>>]

Norms ==
    { NullNorm } \cup
    { [null |-> FALSE, points |-> v] :
        v \in { w \in UNION { [1..n -> {Zero, R(2)}] : n \in 1..MaxBins } :
                  \A j, k \in 1..Len(w) : w[j] = Zero /\ w[k] = Zero => j = k } }

\* The normalization of a call: every norm in the mode norm; no norm, or
\* one that is then ignored, in the other modes.
Normalizations ==
    { [normType |-> "none", ptwX_norm |-> NullNorm],
      [normType |-> "none", ptwX_norm |-> [null |-> FALSE, points |-> <<Zero>>]],
      [normType |-> "dx", ptwX_norm |-> NullNorm] }
    \cup { [normType |-> "norm", ptwX_norm |-> v] : v \in Norms }

\* The functions grouped: the test function; with y in {-2, 0, 2} the
\* linLin, flat and logLin functions; with every y = 2 those of the other
\* laws and the linLin functions with an error status.
allTwo(f) == \A i \in 1..Len(f.points) : f.points[i].y = R(2)

GroupFunctions ==
    { f \in Functions :
        \/ f.points = XYs
        \/ /\ \A i \in 1..Len(f.points) : f.points[i].y # R(4)
           /\ \/ f.status = "nfu_Okay" /\ f.interpolation \in {"linLin", "flat", "logLin"}
              \/ f.status = "nfu_Okay" /\ allTwo(f)
              \/ f.interpolation = "linLin" /\ allTwo(f) }

\* The second and third function of a product: a step from x = 2 to 4, a
\* line from x = 3 to 5, and a logLin function from x = 3 to 5 that starts
\* at 0 and so cannot be evaluated between its points.
SecondFunctions ==
    { [points |-> <<[x |-> R(2), y |-> R(2)], [x |-> R(4), y |-> R(4)]>>,
       interpolation |-> "flat", status |-> "nfu_Okay"],
      [points |-> <<[x |-> R(3), y |-> R(2)], [x |-> R(5), y |-> R(4)]>>,
       interpolation |-> "linLin", status |-> "nfu_Okay"],
      [points |-> <<[x |-> R(3), y |-> R(0)], [x |-> R(5), y |-> R(2)]>>,
       interpolation |-> "logLin", status |-> "nfu_Okay"] }

ThirdFunctions ==
    { [points |-> <<[x |-> R(2), y |-> R(-2)], [x |-> R(6), y |-> R(2)]>>,
       interpolation |-> "linLin", status |-> "nfu_Okay"] }

NoFunction == [points |-> <<>>, interpolation |-> "linLin", status |-> "nfu_Okay"]

NoCall == [op |-> "none", domainMin |-> Zero, domainMax |-> Zero,
           status |-> "nfu_Okay", value |-> Zero, data |-> <<>>, before |-> <<>>,
           groupBoundaries |-> <<>>, normType |-> "none", ptwX_norm |-> NullNorm,
           ptwXY2 |-> NoFunction, ptwXY3 |-> NoFunction,
           allocated |-> {}, released |-> <<>>,
           func |-> "none", prior |-> Zero, reported |-> FALSE, passed |-> <<>>]

Init ==
    /\ ptwXY \in Functions
    /\ evaluator \in {"reject", "extrapolate"}
    /\ call = NoCall

\* ----------------------------------------------------------------- actions
\* The caller makes one call at a time: each action is one call of a public
\* routine on ptwXY, recorded in call until the caller has read it.
\* The record of a call that returned the status and output value of r.
returned(op, domainMin, domainMax, r) ==
    [NoCall EXCEPT !.op = op, !.domainMin = domainMin, !.domainMax = domainMax,
                   !.status = r.status, !.value = r.value, !.reported = r.reported]

\* The record of a call that returned the vector r.data, or NULL.
returnedVector(op, r) ==
    [NoCall EXCEPT !.op = op, !.status = r.status, !.data = r.data,
                   !.allocated = r.allocated, !.released = r.released,
                   !.reported = r.reported]

\* A variant of Integrate whose routine leaves the status it returns in the
\* function.
IntegrateMarking ==
    \E domainMin, domainMax \in DomainValues :
        /\ call.op = "none"
        /\ call' = returned("integrate", domainMin, domainMax,
                            ptwXY_integrate(ptwXY, domainMin, domainMax))
        /\ ptwXY' = [ptwXY EXCEPT !.status = call'.status]
        /\ UNCHANGED evaluator

Integrate ==
    \E domainMin, domainMax \in DomainValues :
        /\ call.op = "none"
        /\ call' = returned("integrate", domainMin, domainMax,
                            ptwXY_integrate(ptwXY, domainMin, domainMax))
        /\ UNCHANGED <<ptwXY, evaluator>>

IntegrateDomain ==
    /\ call.op = "none"
    /\ call' = returned("integrateDomain", Zero, Zero, ptwXY_integrateDomain(ptwXY))
    /\ UNCHANGED <<ptwXY, evaluator>>

Normalize ==
    /\ call.op = "none"
    /\ ptwXY' = ptwXY_normalize(ptwXY).f
    /\ call' = [NoCall EXCEPT !.op = "normalize", !.status = ptwXY_normalize(ptwXY).status,
                              !.reported = ptwXY_normalize(ptwXY).reported,
                              !.before = ptwXY.points]
    /\ UNCHANGED evaluator

RunningIntegral ==
    \E emptyOk \in BOOLEAN :
        /\ call.op = "none"
        /\ call' = returnedVector("runningIntegral", ptwXY_runningIntegral(ptwXY, emptyOk))
        /\ UNCHANGED <<ptwXY, evaluator>>

\* The caller has read the status and the output of the last call.
Return ==
    /\ call.op # "none"
    /\ call' = NoCall
    /\ UNCHANGED <<ptwXY, evaluator>>

Next ==
    \/ Return
    \/ Integrate
    \/ IntegrateDomain
    \/ Normalize
    \/ RunningIntegral

Spec == Init /\ [][Next]_vars

\* The group routines: a call of one of them on ptwXY, the second and the
\* third function, a grid and a normalization.
returnedGroup(op, ptwXY2, ptwXY3, groupBoundaries, normalization, r) ==
    [NoCall EXCEPT !.op = op, !.ptwXY2 = ptwXY2, !.ptwXY3 = ptwXY3,
                   !.groupBoundaries = groupBoundaries,
                   !.normType = normalization.normType, !.ptwX_norm = normalization.ptwX_norm,
                   !.status = r.status, !.data = r.data,
                   !.allocated = r.allocated, !.released = r.released,
                   !.reported = r.reported]

GroupOneFunction ==
    \E groupBoundaries \in Grids, normalization \in Normalizations :
        /\ call.op = "none"
        /\ \E r \in outcomes(ptwXY_groupOneFunction(ptwXY, groupBoundaries,
                                  normalization.normType, normalization.ptwX_norm)) :
               call' = returnedGroup("groupOneFunction", NoFunction, NoFunction,
                                     groupBoundaries, normalization, r)
        /\ UNCHANGED <<ptwXY, evaluator>>

GroupTwoFunctions ==
    \E groupBoundaries \in Grids, normalization \in Normalizations, ptwXY2 \in SecondFunctions :
        /\ call.op = "none"
        /\ \E r \in outcomes(ptwXY_groupTwoFunctions(ptwXY, ptwXY2, groupBoundaries,
                                  normalization.normType, normalization.ptwX_norm)) :
               call' = returnedGroup("groupTwoFunctions", ptwXY2, NoFunction,
                                     groupBoundaries, normalization, r)
        /\ UNCHANGED <<ptwXY, evaluator>>

GroupThreeFunctions ==
    \E groupBoundaries \in Grids, normalization \in Normalizations,
       ptwXY2 \in SecondFunctions, ptwXY3 \in ThirdFunctions :
        /\ call.op = "none"
        /\ \E r \in outcomes(ptwXY_groupThreeFunctions(ptwXY, ptwXY2, ptwXY3, groupBoundaries,
                                  normalization.normType, normalization.ptwX_norm)) :
               call' = returnedGroup("groupThreeFunctions", ptwXY2, ptwXY3,
                                     groupBoundaries, normalization, r)
        /\ UNCHANGED <<ptwXY, evaluator>>

InitGroup ==
    /\ ptwXY \in GroupFunctions
    /\ evaluator = "reject"
    /\ call = NoCall

NextGroup ==
    \/ Return
    \/ GroupOneFunction
    \/ GroupTwoFunctions
    \/ GroupThreeFunctions

SpecGroup == InitGroup /\ [][NextGroup]_vars

\* The same program beside a point-evaluator that rejects every x outside
\* the segment it is given.
InitReject == Init /\ evaluator = "reject"

SpecReject == InitReject /\ [][Next]_vars

\* The weighted integrators: a call of one of them on ptwXY.
IntegrateWithWeight_x ==
    \E domainMin, domainMax \in DomainValues :
        /\ call.op = "none"
        /\ call' = returned("integrateWithWeight_x", domainMin, domainMax,
                            ptwXY_integrateWithWeight_x(ptwXY, domainMin, domainMax))
        /\ UNCHANGED <<ptwXY, evaluator>>

IntegrateWithWeight_sqrt_x ==
    \E domainMin, domainMax \in DomainValues :
        /\ call.op = "none"
        /\ call' = returned("integrateWithWeight_sqrt_x", domainMin, domainMax,
                            ptwXY_integrateWithWeight_sqrt_x(ptwXY, domainMin, domainMax))
        /\ UNCHANGED <<ptwXY, evaluator>>

IntegrateDomainWithWeight_x ==
    /\ call.op = "none"
    /\ call' = returned("integrateDomainWithWeight_x", Zero, Zero,
                        ptwXY_integrateDomainWithWeight_x(ptwXY))
    /\ UNCHANGED <<ptwXY, evaluator>>

IntegrateDomainWithWeight_sqrt_x ==
    /\ call.op = "none"
    /\ call' = returned("integrateDomainWithWeight_sqrt_x", Zero, Zero,
                        ptwXY_integrateDomainWithWeight_sqrt_x(ptwXY))
    /\ UNCHANGED <<ptwXY, evaluator>>

NextWeight ==
    \/ Return
    \/ IntegrateWithWeight_x
    \/ IntegrateWithWeight_sqrt_x
    \/ IntegrateDomainWithWeight_x
    \/ IntegrateDomainWithWeight_sqrt_x

SpecWeight == Init /\ [][NextWeight]_vars

\* The integral with a function: the caller passes an integrand, func( x ) = 1
\* or one that fails, and an output variable that holds 0 or 7.
Integrands == {"one", "fails"}

PriorValues == {Zero, R(7)}

IntegrateWithFunction ==
    \E domainMin, domainMax \in DomainValues, func \in Integrands, prior \in PriorValues :
        /\ call.op = "none"
        /\ call' = [returned("integrateWithFunction", domainMin, domainMax,
                        ptwXY_integrateWithFunction(ptwXY, func, domainMin, domainMax, prior))
                        EXCEPT !.func = func, !.prior = prior,
                               !.passed = ptwXY_integrateWithFunction(ptwXY, func, domainMin,
                                              domainMax, prior).passed]
        /\ UNCHANGED <<ptwXY, evaluator>>

\* The functions integrated with a function: the test function, those with
\* y in {-2, 0, 2} and status Okay, and those without points.
FunctionInputs ==
    { f \in Functions :
        \/ f.points = XYs
        \/ /\ \A i \in 1..Len(f.points) : f.points[i].y # R(4)
           /\ f.status = "nfu_Okay" \/ f.points = <<>> }

InitFunction ==
    /\ ptwXY \in FunctionInputs
    /\ evaluator \in {"reject", "extrapolate"}
    /\ call = NoCall

NextFunction ==
    \/ Return
    \/ IntegrateWithFunction

SpecFunction == InitFunction /\ [][NextFunction]_vars

\* The segment integrator called on its own: the two points of ptwXY are
\* then any (x1,y1), (x2,y2), of either sign and in either order.
SegmentValues == {R(-1), Zero, One, R(2)}

Segments ==
    { [points |-> <<[x |-> x1, y |-> y1], [x |-> x2, y |-> y2]>>,
       interpolation |-> law, status |-> "nfu_Okay"] :
        x1 \in SegmentValues, y1 \in SegmentValues,
        x2 \in SegmentValues, y2 \in SegmentValues, law \in Laws }

InitSegment ==
    /\ ptwXY \in Segments
    /\ evaluator = "reject"
    /\ call = NoCall

F_integrate ==
    /\ call.op = "none"
    /\ call' = returned("f_integrate", Zero, Zero,
                        ptwXY_f_integrate(ptwXY.interpolation,
                                          ptwXY.points[1].x, ptwXY.points[1].y,
                                          ptwXY.points[2].x, ptwXY.points[2].y))
    /\ UNCHANGED <<ptwXY, evaluator>>

NextSegment ==
    \/ Return
    \/ F_integrate

SpecSegment == InitSegment /\ [][NextSegment]_vars

\* Every routine, called on a function of at most two points or on the test
\* function.
FrameFunctions == { f \in GroupFunctions : Len(f.points) <= 2 \/ f.points = XYs }

InitFrame ==
    /\ ptwXY \in FrameFunctions
    /\ evaluator = "reject"
    /\ call = NoCall

NextFrame ==
    \/ Return
    \/ Integrate
    \/ IntegrateDomain
    \/ Normalize
    \/ RunningIntegral
    \/ GroupOneFunction
    \/ GroupTwoFunctions
    \/ GroupThreeFunctions
    \/ IntegrateWithWeight_x
    \/ IntegrateWithWeight_sqrt_x
    \/ IntegrateDomainWithWeight_x
    \/ IntegrateDomainWithWeight_sqrt_x
    \/ IntegrateWithFunction

SpecFrame == InitFrame /\ [][NextFrame]_vars

\* ------------------------------------------------------------------ claims
\* The function as it was before the last call (only ptwXY_normalize changes it).
Before == IF call.op = "normalize" THEN [ptwXY EXCEPT !.points = call.before] ELSE ptwXY

Integrable(f) == f.status = "nfu_Okay" /\ f.interpolation # "other"

\* The segment between points i - 1 and i, integrated by ptwXY_f_integrate.
Segment(f, i) ==
    ptwXY_f_integrate(f.interpolation, f.points[i - 1].x, f.points[i - 1].y,
                      f.points[i].x, f.points[i].y)

AllSegmentsOkay(f) == \A i \in 2..Len(f.points) : Segment(f, i).status = "nfu_Okay"

\* The sum of the segment integrals of points 1..n, each pair once.
RECURSIVE SegmentSum(_, _)
SegmentSum(f, n) == IF n < 2 THEN Zero ELSE RAdd(SegmentSum(f, n - 1), Segment(f, n).value)

IsTestFunction == ptwXY = [points |-> XYs, interpolation |-> "linLin", status |-> "nfu_Okay"]

IntegrateCall(a, b) ==
    call.op = "integrate" /\ call.domainMin = a /\ call.domainMax = b

\* C1 (as claimed): for a function with status Okay and a supported law, a
\* successful ptwXY_integrate(a,b) returns the negation of what
\* ptwXY_integrate(b,a) returns, wherever a and b lie.
C1_Antisymmetric ==
    (call.op = "integrate" /\ Integrable(ptwXY) /\ call.status = "nfu_Okay")
    => /\ ptwXY_integrate(ptwXY, call.domainMax, call.domainMin).status = "nfu_Okay"
       /\ call.value = RNeg(ptwXY_integrate(ptwXY, call.domainMax, call.domainMin).value)

\* C2: on the linLin function (2,2),(4,4),(6,2),(8,6) ptwXY_integrate returns
\* Okay and 20, 17.5, 10.5, 5, 15, 9.5, 2.5, 12.5 for the ranges (2,8), (3,8),
\* (5,8), (7,8), (2,7), (2,5), (2,3), (3,7).
C2_Expected ==
    <<  <<2, 8, Rat(20, 1)>>, <<3, 8, Rat(35, 2)>>, <<5, 8, Rat(21, 2)>>,
        <<7, 8, Rat(5, 1)>>,  <<2, 7, Rat(15, 1)>>, <<2, 5, Rat(19, 2)>>,
        <<2, 3, Rat(5, 2)>>,  <<3, 7, Rat(25, 2)>> >>

C2_TestValues ==
    \A k \in 1..Len(C2_Expected) :
        (IsTestFunction /\ IntegrateCall(R(C2_Expected[k][1]), R(C2_Expected[k][2])))
        => call.status = "nfu_Okay" /\ call.value = C2_Expected[k][3]

C2_Witness == IsTestFunction /\ IntegrateCall(R(3), R(7)) /\ call.value = Rat(25, 2)

\* C3: when every segment integral succeeds, ptwXY_integrate over the
\* function's own domain, and ptwXY_integrateDomain, return Okay and the sum
\* of ptwXY_f_integrate over the consecutive pairs of points, each once.
FullDomainCall ==
    \/ call.op = "integrateDomain"
    \/ /\ call.op = "integrate"
       /\ call.domainMin = ptwXY_domainMin(ptwXY)
       /\ call.domainMax = ptwXY_domainMax(ptwXY)

C3_FullDomainIsSegmentSum ==
    (Integrable(ptwXY) /\ Len(ptwXY.points) >= 2 /\ AllSegmentsOkay(ptwXY) /\ FullDomainCall)
    => /\ call.status = "nfu_Okay"
       /\ call.value = SegmentSum(ptwXY, Len(ptwXY.points))

C3_Witness ==
    /\ Integrable(ptwXY) /\ Len(ptwXY.points) = 3 /\ call.op = "integrate"
    /\ FullDomainCall /\ call.status = "nfu_Okay"
    /\ Segment(ptwXY, 2).value # Zero /\ Segment(ptwXY, 3).value # Zero
    /\ call.value = RAdd(Segment(ptwXY, 2).value, Segment(ptwXY, 3).value)

\* C4: when domainMin is below the first x and domainMax above the last x
\* (and the integral over the function's own domain exists), ptwXY_integrate
\* returns Okay and the value of the integral over the function's own
\* domain: the sum of all segment integrals.
Overhanging ==
    /\ call.op = "integrate" /\ Len(ptwXY.points) >= 2
    /\ RLt(call.domainMin, ptwXY_domainMin(ptwXY))
    /\ RGt(call.domainMax, ptwXY_domainMax(ptwXY))

C4_OverhangAddsNothing ==
    (Integrable(ptwXY) /\ Overhanging /\ AllSegmentsOkay(ptwXY))
    => /\ call.status = "nfu_Okay"
       /\ call.value = SegmentSum(ptwXY, Len(ptwXY.points))
       /\ call.value = ptwXY_integrateDomain(ptwXY).value

C4_Witness ==
    /\ Integrable(ptwXY) /\ Overhanging /\ Len(ptwXY.points) = 3
    /\ call.status = "nfu_Okay" /\ call.value # Zero

\* C5: after ptwXY_normalize returns Okay on a function whose full-domain
\* integral is S # 0, every y is its previous value divided by S, every x
\* is unchanged, and ptwXY_integrateDomain of the result returns 1.
C5_Normalized ==
    (call.op = "normalize" /\ call.status = "nfu_Okay")
    => /\ SegmentSum(Before, Len(call.before)) # Zero
       /\ Len(ptwXY.points) = Len(call.before)
       /\ \A i \in 1..Len(call.before) :
            /\ ptwXY.points[i].x = call.before[i].x
            /\ ptwXY.points[i].y =
                   RDiv(call.before[i].y, SegmentSum(Before, Len(call.before)))
       /\ ptwXY_integrateDomain(ptwXY) = Okay(One)

C5_Witness ==
    /\ call.op = "normalize" /\ call.status = "nfu_Okay"
    /\ Len(ptwXY.points) = 3
    /\ SegmentSum(Before, 3) \notin {Zero, One}
    /\ ptwXY.points # call.before

\* C6: ptwXY_normalize returns BadNorm (and leaves the points alone)
\* whenever the full-domain integral of an integrable function is exactly
\* zero: with fewer than 2 points, and when the areas cancel.
ZeroIntegral(f) ==
    \/ Len(f.points) < 2
    \/ AllSegmentsOkay(f) /\ SegmentSum(f, Len(f.points)) = Zero

C6_ZeroNormRejected ==
    (call.op = "normalize" /\ Integrable(Before) /\ ZeroIntegral(Before))
    => call.status = "nfu_badNorm" /\ ptwXY.points = call.before

C6_Witness ==
    /\ call.op = "normalize" /\ call.status = "nfu_badNorm"
    /\ Len(ptwXY.points) >= 2
    /\ \E i \in 1..Len(ptwXY.points) : RLt(ptwXY.points[i].y, Zero)
    /\ \E i \in 1..Len(ptwXY.points) : RGt(ptwXY.points[i].y, Zero)

\* C7: for a function of n >= 1 points whose segment integrals all succeed,
\* ptwXY_runningIntegral returns n entries, entry 0 is 0 and entry i is
\* entry i - 1 plus ptwXY_f_integrate of points i - 1 and i.
C7_RunningIntegral ==
    (call.op = "runningIntegral" /\ ptwXY.status = "nfu_Okay"
        /\ Len(ptwXY.points) >= 1 /\ AllSegmentsOkay(ptwXY))
    => /\ call.status = "nfu_Okay"
       /\ Len(call.data) = Len(ptwXY.points)
       /\ call.data[1] = Zero
       /\ \A i \in 2..Len(ptwXY.points) :
            call.data[i] = RAdd(call.data[i - 1], Segment(ptwXY, i).value)

C7_Witness ==
    /\ call.op = "runningIntegral" /\ call.status = "nfu_Okay"
    /\ Len(call.data) = 3 /\ call.data[2] # Zero /\ call.data[3] # call.data[2]

\* C8 (as claimed): on the linLin function (2,2),(4,4),(6,2),(8,6)
\* ptwXY_runningIntegral returns [0, 6, 12, 17].
C8_AsClaimed ==
    (IsTestFunction /\ call.op = "runningIntegral")
    => call.data = <<R(0), R(6), R(12), R(17)>>

\* C8 (amended): on the linLin function (2,2),(4,4),(6,2),(8,6)
\* ptwXY_runningIntegral returns the trapezoid sums [0, 6, 12, 20].
C8_RunningTestValues ==
    (IsTestFunction /\ call.op = "runningIntegral")
    => call.status = "nfu_Okay" /\ call.data = <<R(0), R(6), R(12), R(20)>>

C8_Witness ==
    IsTestFunction /\ call.op = "runningIntegral" /\ Len(call.data) = 4

\* The group call last made: its functions, and what it returns for them
\* under another normalization.
GroupCall == call.op \in {"groupOneFunction", "groupTwoFunctions", "groupThreeFunctions"}

GroupInputs ==
    CASE call.op = "groupOneFunction" -> <<ptwXY>>
      [] call.op = "groupTwoFunctions" -> <<ptwXY, call.ptwXY2>>
      [] OTHER -> <<ptwXY, call.ptwXY2, call.ptwXY3>>

GroupResult(normType, ptwX_norm) ==
    CASE call.op = "groupOneFunction" ->
           ptwXY_groupOneFunction(ptwXY, call.groupBoundaries, normType, ptwX_norm)
      [] call.op = "groupTwoFunctions" ->
           ptwXY_groupTwoFunctions(ptwXY, call.ptwXY2, call.groupBoundaries, normType, ptwX_norm)
      [] OTHER ->
           ptwXY_groupThreeFunctions(ptwXY, call.ptwXY2, call.ptwXY3, call.groupBoundaries,
                                     normType, ptwX_norm)

ngs == Len(call.groupBoundaries) - 1

\* The checks made before the functions are intersected with the grid.
GroupAccepted ==
    /\ GroupCall
    /\ \A k \in 1..Len(GroupInputs) : Integrable(GroupInputs[k])
    /\ normStatus(ngs, call.normType, call.ptwX_norm) = "nfu_Okay"

AllIntersected ==
    \A k \in 1..Len(GroupInputs) :
        ptwXY_intersectionWith_ptwX(GroupInputs[k], call.groupBoundaries).status = "nfu_Okay"

\* The grid lies outside the domain of f: f has no point, or the grid ends
\* at or before its first x, or starts at or after its last x.
Outside(f, groupBoundaries) ==
    \/ Len(f.points) = 0
    \/ RLe(groupBoundaries[Len(groupBoundaries)], f.points[1].x)
    \/ RGe(groupBoundaries[1], f.points[Len(f.points)].x)

SomeOutside == \E k \in 1..Len(GroupInputs) : Outside(GroupInputs[k], call.groupBoundaries)

\* C9: when a group routine has accepted its arguments and intersected every
\* function with the grid, and the grid lies outside the domain of one of
\* the functions, it returns a vector (no error) of (number of boundaries
\* - 1) entries that are all 0.
C9_OutsideIsZero ==
    (GroupAccepted /\ AllIntersected /\ SomeOutside) =>
        /\ call.status = "nfu_Okay"
        /\ Len(call.data) = Len(call.groupBoundaries) - 1
        /\ \A igs \in 1..Len(call.data) : call.data[igs] = Zero

\* A product of two functions in norm mode, the grid overlapping the first
\* function and lying outside the second: two zeros came back.
C9_Witness ==
    /\ GroupAccepted /\ AllIntersected
    /\ call.op = "groupTwoFunctions"
    /\ call.normType = "norm"
    /\ ~Outside(ptwXY, call.groupBoundaries)
    /\ Outside(call.ptwXY2, call.groupBoundaries)
    /\ call.status = "nfu_Okay"
    /\ call.data = <<Zero, Zero>>

\* A call in norm mode that reaches the loop over the groups: the norm has
\* one entry per group, every function overlaps the grid, and the same call
\* without normalization returns a vector.
NormModeLoop ==
    /\ GroupCall
    /\ call.normType = "norm"
    /\ normStatus(ngs, call.normType, call.ptwX_norm) = "nfu_Okay"
    /\ GroupResult("none", NullNorm).status = "nfu_Okay"
    /\ ~SomeOutside

\* The entries the same call returns without normalization: the sum of a
\* group is zero exactly when its entry is 0.
Unnormalized == { GroupResult("none", NullNorm).data }

ZeroNorm(igs) == call.ptwX_norm.points[igs] = Zero

\* C10 (as claimed): in norm mode, with a norm of the right length and
\* functions that overlap the grid, a group routine fails with DivByZero and
\* returns no vector if the norm entry of any group is zero, whatever the
\* sum of that group.
C10_AsClaimed ==
    (NormModeLoop /\ \E igs \in 1..ngs : ZeroNorm(igs)) =>
        call.status = "nfu_divByZero" /\ call.data = <<>>

\* How a failure with DivByZero ends: with the error reported and no vector
\* returned; in ptwXY_groupTwoFunctions, whose error path frees ff twice,
\* possibly with the process aborted instead.
DivByZeroFailure ==
    /\ call.data = <<>>
    /\ \/ call.status = "nfu_divByZero"
       \/ call.op = "groupTwoFunctions" /\ call.status = "abort"

\* C10 (amended): in norm mode, with a norm of the right length and
\* functions that overlap the grid, a group routine fails with DivByZero
\* exactly when some group has a zero norm entry and a non-zero sum; a group
\* whose sum is zero gets the entry 0 without its norm entry being looked at.
C10_ZeroNormOfNonZeroSum ==
    NormModeLoop =>
        \A sums \in Unnormalized :
            IF \E igs \in 1..ngs : ZeroNorm(igs) /\ sums[igs] # Zero
            THEN DivByZeroFailure
            ELSE /\ call.status = "nfu_Okay"
                 /\ Len(call.data) = ngs
                 /\ \A igs \in 1..ngs : sums[igs] = Zero => call.data[igs] = Zero

\* A vector came back although the norm entry of a group is zero: the sum of
\* that group is zero, the other group has a non-zero entry.
C10_Witness ==
    /\ NormModeLoop
    /\ call.status = "nfu_Okay"
    /\ \E igs \in 1..ngs : ZeroNorm(igs) /\ call.data[igs] = Zero
    /\ \E igs \in 1..ngs : call.data[igs] # Zero

\* The functions of the group call pass the checks made before the norm
\* vector is looked at.
GroupFunctionsAccepted ==
    GroupCall /\ \A k \in 1..Len(GroupInputs) : Integrable(GroupInputs[k])

BadNormVector ==
    call.ptwX_norm.null \/ Len(call.ptwX_norm.points) # ngs

C12_UnsupportedLaw ==
    /\ (call.op = "integrateWithWeight_x" /\ ptwXY.status = "nfu_Okay")
       => /\ call.status = "nfu_unsupportedInterpolation"
             <=> ptwXY.interpolation \notin {"linLin", "logLin", "flat"}
          /\ call.status = "nfu_unsupportedInterpolation" => call.value = Zero
    /\ (call.op = "integrateWithWeight_sqrt_x" /\ ptwXY.status = "nfu_Okay")
       => /\ call.status = "nfu_unsupportedInterpolation"
             <=> ptwXY.interpolation \notin {"linLin", "flat"}
          /\ call.status = "nfu_unsupportedInterpolation" => call.value = Zero

C12_Witness ==
    /\ call.op = "integrateWithWeight_x"
    /\ ptwXY.status = "nfu_Okay" /\ ptwXY.interpolation = "logLog"
    /\ Len(ptwXY.points) < 2
    /\ RLt(call.domainMax, call.domainMin)
    /\ call.status = "nfu_unsupportedInterpolation" /\ call.value = Zero

FunctionCall == call.op = "integrateWithFunction"

BoundsMin == RMin(call.domainMin, call.domainMax)

BoundsMax == RMax(call.domainMin, call.domainMax)

Degenerate ==
    \/ call.domainMin = call.domainMax
    \/ Len(ptwXY.points) < 2
    \/ RGe(BoundsMin, ptwXY_domainMax(ptwXY))
    \/ RLe(BoundsMax, ptwXY_domainMin(ptwXY))

\* C13: for degenerate input (equal bounds, fewer than 2 points, a range
\* outside the domain) ptwXY_integrateWithFunction returns nfu_Okay and the
\* caller's output value is 0 afterwards, whatever it held before the call.
C13_DegenerateIsZero ==
    (FunctionCall /\ ptwXY.status = "nfu_Okay" /\ Degenerate)
    => call.status = "nfu_Okay" /\ call.value = Zero

\* C14: for bounds (a,b) and (b,a) for which both calls succeed, the value
\* ptwXY_integrateWithFunction returns for (a,b) is the negation of the one
\* for (b,a); the output variable held 0 before either call.
C14_FunctionAntisymmetric ==
    (FunctionCall /\ call.status = "nfu_Okay" /\ call.prior = Zero)
    => \A r \in { ptwXY_integrateWithFunction(ptwXY, call.func, call.domainMax,
                                              call.domainMin, Zero) } :
           r.status = "nfu_Okay" => call.value = RNeg(r.value)

SegmentCall == call.op = "f_integrate"

NotPositive(v) == RLe(v, Zero)

BadSegment ==
    \/ /\ ptwXY.interpolation = "logLin"
       /\ NotPositive(ptwXY.points[1].y) \/ NotPositive(ptwXY.points[2].y)
    \/ /\ ptwXY.interpolation = "linLog"
       /\ NotPositive(ptwXY.points[1].x) \/ NotPositive(ptwXY.points[2].x)
    \/ /\ ptwXY.interpolation = "logLog"
       /\ \/ NotPositive(ptwXY.points[1].x) \/ NotPositive(ptwXY.points[2].x)
          \/ NotPositive(ptwXY.points[1].y) \/ NotPositive(ptwXY.points[2].y)

\* C15: ptwXY_f_integrate fails with nfu_badIntegrationInput exactly when the
\* law is logLin and a y is <= 0, linLog and an x is <= 0, or logLog and any
\* of the four is <= 0; with nfu_otherInterpolation exactly when the law is
\* other; never for linLin or flat; and every failure leaves the value 0.
C15_SegmentFailures ==
    SegmentCall
    => /\ call.status = "nfu_badIntegrationInput" <=> BadSegment
       /\ call.status = "nfu_otherInterpolation" <=> ptwXY.interpolation = "other"
       /\ ptwXY.interpolation \in {"linLin", "flat"} => call.status = "nfu_Okay"
       /\ call.status \in {"nfu_Okay", "nfu_badIntegrationInput", "nfu_otherInterpolation"}
       /\ call.status # "nfu_Okay" => call.value = Zero

C15_Witness ==
    /\ SegmentCall
    /\ ptwXY.interpolation = "logLog"
    /\ RGt(ptwXY.points[1].x, Zero) /\ RGt(ptwXY.points[1].y, Zero)
    /\ RGt(ptwXY.points[2].x, Zero) /\ ptwXY.points[2].y = Zero
    /\ call.status = "nfu_badIntegrationInput" /\ call.value = Zero

\* C16: ptwXY_integrate and ptwXY_integrateDomain return nfu_badSelf for every
\* function with a prior error status and, the status being Okay,
\* nfu_otherInterpolation for every function of the law other, whatever its
\* number of points; a function that passes both checks with fewer than 2
\* points gives nfu_Okay and 0.
C16_Rejects ==
    call.op \in {"integrate", "integrateDomain"}
    => /\ ptwXY.status # "nfu_Okay" => call.status = "nfu_badSelf"
       /\ (ptwXY.status = "nfu_Okay" /\ ptwXY.interpolation = "other")
          => call.status = "nfu_otherInterpolation"
       /\ (ptwXY.status = "nfu_Okay" /\ ptwXY.interpolation # "other"
              /\ Len(ptwXY.points) < 2)
          => call.status = "nfu_Okay" /\ call.value = Zero

VectorCall == GroupCall \/ call.op = "runningIntegral"

\* How often the call released the structure a.
Releases(a) == Cardinality({ k \in DOMAIN call.released : call.released[k] = a })

Released == { call.released[k] : k \in DOMAIN call.released }

\* C19: on every error return of the group routines and of
\* ptwXY_runningIntegral each structure allocated so far (intersections,
\* unions, the result vector) has been released exactly once, and nothing
\* else has been released.
C19_ErrorReleasesAll ==
    (VectorCall /\ call.status # "nfu_Okay")
    => /\ \A a \in call.allocated : Releases(a) = 1
       /\ Released \subseteq call.allocated

\* C20: on every non-error return of a group routine, the early return of
\* the all-zero vector for an empty intersection included, each intersection
\* and union the routine created has been released exactly once and only
\* the result vector remains.
C20_SuccessKeepsResultOnly ==
    (GroupCall /\ call.status = "nfu_Okay")
    => /\ "groupedData" \in call.allocated
       /\ \A a \in call.allocated \ {"groupedData"} : Releases(a) = 1
       /\ Released = call.allocated \ {"groupedData"}

\* Bin igs lies outside the domain of ptwXY.
BinOutside(igs) ==
    \/ Len(ptwXY.points) = 0
    \/ RLe(call.groupBoundaries[igs + 1], ptwXY_domainMin(ptwXY))
    \/ RGe(call.groupBoundaries[igs], ptwXY_domainMax(ptwXY))

YAt(x) == ptwXY.points[pointAt(ptwXY, x)].y

\* What the quadrature call number k of the last ptwXY_integrateWithFunction
\* returned.
QuadratureCall(k) ==
    nf_GnG_adaptiveQuadrature(ptwXY.interpolation, call.func,
        call.passed[k].x1, YAt(call.passed[k].x1),
        call.passed[k].x2, YAt(call.passed[k].x2),
        call.passed[k].xa, call.passed[k].xb)

\* C23: in ptwXY_integrateWithFunction a failed call of the quadrature is the
\* last one made: the routine returns its status, passes no further segment
\* to the quadrature, and leaves the output value as the caller had it.
C23_FirstFailureReturns ==
    FunctionCall
    => \A k \in 1..Len(call.passed) :
           QuadratureCall(k).status # "nfu_Okay"
           => /\ k = Len(call.passed)
              /\ call.status = QuadratureCall(k).status
              /\ call.value = call.prior

C23_Witness ==
    /\ FunctionCall
    /\ Len(call.passed) = 2
    /\ QuadratureCall(1).status = "nfu_Okay" /\ QuadratureCall(1).value # Zero
    /\ QuadratureCall(2).status # "nfu_Okay"
    /\ call.status = QuadratureCall(2).status
    /\ call.prior = R(7) /\ call.value = R(7)

WeightedCall == call.op \in {"integrateWithWeight_x", "integrateWithWeight_sqrt_x"}

\* The laws the weighted integrator of the last call supports.
WeightedLaws ==
    IF call.op = "integrateWithWeight_x" THEN {"linLin", "logLin", "flat"}
    ELSE {"linLin", "flat"}

\* The same routine as the last call, on the given bounds.
WeightedResult(domainMin, domainMax) ==
    IF call.op = "integrateWithWeight_x"
    THEN ptwXY_integrateWithWeight_x(ptwXY, domainMin, domainMax)
    ELSE ptwXY_integrateWithWeight_sqrt_x(ptwXY, domainMin, domainMax)

BoundsInside ==
    /\ Len(ptwXY.points) >= 2
    /\ RLe(ptwXY_domainMin(ptwXY), BoundsMin)
    /\ RLe(BoundsMax, ptwXY_domainMax(ptwXY))

\* C24: for a function with a supported law and bounds inside its domain,
\* each weighted integrator returns for (a,b) the status and the negated
\* value it returns for (b,a), and for a = b it leaves the value 0 (values
\* that are not rational, square roots among them, are left out).
C24_WeightedAntisymmetric ==
    (WeightedCall /\ ptwXY.status = "nfu_Okay"
        /\ ptwXY.interpolation \in WeightedLaws /\ BoundsInside)
    => /\ \A r \in { WeightedResult(call.domainMax, call.domainMin) } :
              /\ call.status = r.status
              /\ call.value = RNeg(r.value)
       /\ (call.domainMin = call.domainMax /\ call.value # Irrational)
          => call.value = Zero

DomainCall ==
    call.op \in {"integrate", "integrateWithWeight_x", "integrateWithWeight_sqrt_x"}

\* The laws the routine of the last call accepts.
AcceptedLaws ==
    IF call.op = "integrate" THEN Laws \ {"other"} ELSE WeightedLaws

\* C25: for a function of at least 2 points whose segments pass the tests of
\* its law and a range that lies entirely below its first x, ptwXY_integrate and the two weighted integrators
\* return nfu_Okay and the value 0: the point evaluator, which rejects or
\* extrapolates an x outside the segment passed to it, is not called there.
C25_BelowDomainIsZero ==
    (DomainCall /\ ptwXY.status = "nfu_Okay" /\ Len(ptwXY.points) >= 2
        /\ ptwXY.interpolation \in AcceptedLaws /\ AllSegmentsOkay(ptwXY)
        /\ RLt(BoundsMax, ptwXY_domainMin(ptwXY)))
    => call.status = "nfu_Okay" /\ call.value = Zero

\* C26: in a call of ptwXY_integrateWithFunction on a non-degenerate range
\* the intervals [xa,xb] passed to the quadrature are contiguous, each lies
\* inside the segment [x1,x2] passed with it, the first starts at
\* max(domainMin, first x) and, when every call succeeded, the last ends at
\* min(domainMax, last x).
C26_IntervalsInsideSegments ==
    (FunctionCall /\ ptwXY.status = "nfu_Okay" /\ ~Degenerate)
    => /\ Len(call.passed) >= 1
       /\ \A k \in 1..Len(call.passed) :
              /\ RLe(call.passed[k].x1, call.passed[k].xa)
              /\ RLe(call.passed[k].xa, call.passed[k].xb)
              /\ RLe(call.passed[k].xb, call.passed[k].x2)
       /\ \A k \in 2..Len(call.passed) : call.passed[k].xa = call.passed[k - 1].xb
       /\ call.passed[1].xa = RMax(BoundsMin, ptwXY_domainMin(ptwXY))
       /\ call.status = "nfu_Okay"
          => call.passed[Len(call.passed)].xb = RMin(BoundsMax, ptwXY_domainMax(ptwXY))

\* The last call was ptwXY_integrate on a linLin or flat function with
\* a = domainMin <= domainMax = c, both inside the function's domain.
AdditiveCall ==
    /\ call.op = "integrate" /\ ptwXY.status = "nfu_Okay"
    /\ ptwXY.interpolation \in {"linLin", "flat"}
    /\ BoundsInside /\ RLe(call.domainMin, call.domainMax)

\* C27: for a linLin or flat function and a <= b <= c inside its domain,
\* ptwXY_integrate(a,b) + ptwXY_integrate(b,c) = ptwXY_integrate(a,c), and
\* the three calls return nfu_Okay.
C27_Additive ==
    AdditiveCall
    => \A b \in { x \in DomainValues : RLe(call.domainMin, x) /\ RLe(x, call.domainMax) } :
           \A ab \in { ptwXY_integrate(ptwXY, call.domainMin, b) } :
               \A bc \in { ptwXY_integrate(ptwXY, b, call.domainMax) } :
                   /\ call.status = "nfu_Okay"
                   /\ ab.status = "nfu_Okay" /\ bc.status = "nfu_Okay"
                   /\ call.value = RAdd(ab.value, bc.value)

\* From inside the first segment to inside the second; b = 3 lies strictly
\* inside the first segment and b = 4 at the breakpoint.
C27_Witness ==
    /\ AdditiveCall /\ Len(ptwXY.points) >= 3
    /\ call.domainMin = Rat(5, 2) /\ call.domainMax = R(5)
    /\ call.status = "nfu_Okay" /\ call.value # Zero
    /\ ptwXY_integrate(ptwXY, Rat(5, 2), R(3)).value # Zero
    /\ ptwXY_integrate(ptwXY, R(3), R(5)).value # Zero
    /\ ptwXY_integrate(ptwXY, R(4), R(5)).value # Zero

\* C28: whenever ptwXY_integrate returns a status other than nfu_Okay, the
\* output value is 0, also when segments were accumulated before the
\* failure.
C28_FailureLeavesZero ==
    (call.op = "integrate" /\ call.status # "nfu_Okay") => call.value = Zero

NormalizeCall == call.op = "normalize"

\* C29: ptwXY_normalize leaves every point as it was unless it returns
\* nfu_Okay, and then every x is as before and every y is its previous value
\* divided by one divisor, the integral over the domain before the call.
C29_NormalizeFrame ==
    NormalizeCall
    => /\ call.status # "nfu_Okay" => ptwXY.points = call.before
       /\ call.status = "nfu_Okay"
          => \A sum \in { ptwXY_integrateDomain(Before) } :
                 /\ sum.status = "nfu_Okay" /\ sum.value # Zero
                 /\ Len(ptwXY.points) = Len(call.before)
                 /\ \A i1 \in 1..Len(call.before) :
                        /\ ptwXY.points[i1].x = call.before[i1].x
                        /\ ptwXY.points[i1].y = RDiv(call.before[i1].y, sum.value)

\* The areas of a function with non-zero y cancel: nfu_badNorm, and the
\* points are the ones before the call.
C29_Witness ==
    /\ NormalizeCall /\ call.status = "nfu_badNorm"
    /\ Len(call.before) >= 2
    /\ \A i1 \in 1..Len(call.before) : call.before[i1].y # Zero
    /\ ptwXY.points = call.before

\* C30: for a function with at least one point and any law, each weighted
\* integrator over the domain returns the status and the value that the
\* weighted integrator with bounds returns for the function's first and last
\* x.
C30_DomainIsOwnBounds ==
    /\ (call.op = "integrateDomainWithWeight_x" /\ Len(ptwXY.points) >= 1)
       => \A r \in { ptwXY_integrateWithWeight_x(ptwXY, ptwXY_domainMin(ptwXY),
                                                 ptwXY_domainMax(ptwXY)) } :
              call.status = r.status /\ call.value = r.value
    /\ (call.op = "integrateDomainWithWeight_sqrt_x" /\ Len(ptwXY.points) >= 1)
       => \A r \in { ptwXY_integrateWithWeight_sqrt_x(ptwXY, ptwXY_domainMin(ptwXY),
                                                      ptwXY_domainMax(ptwXY)) } :
              call.status = r.status /\ call.value = r.value

====
